---- MODULE Spec2Model ----
(***************************************************************************)
(* A model of the core of the EdControls command-line client:              *)
(*   - the human ID codec (cmd/util.go, humanID),                          *)
(*   - the resolver of human IDs (cmd/tickets.go, findTicketByHumanID and  *)
(*     cmd/audits.go, findAuditByHumanID),                                 *)
(*   - the date filters (MatchesDates, ParseRelativeTime, parseAPIDate),   *)
(*   - the upload pipeline of "maps add" (cmd/maps.go, MapsAddCmd.Run).    *)
(*                                                                         *)
(* A Go string is a sequence of bytes.  A byte is written as a token: an   *)
(* ASCII byte is the one-character string of its character, any other byte *)
(* is "x" followed by its hexadecimal value.  A rune (what Go's []rune and *)
(* strings.ToUpper see after UTF-8 decoding) is an ASCII token or          *)
(* "U+<code point>".                                                       *)
(***************************************************************************)
EXTENDS Integers, Sequences, FiniteSets, TLC

VARIABLES
    \* ---- human ID codec --------------------------------------------------
    couchDbID,      \* the argument of humanID (a byte string)
    hid,            \* what humanID returned
    codecPc,        \* "input" before the call, "done" after it
    \* ---- resolver of human IDs -------------------------------------------
    listing,        \* the projects the licence server lists, in the order the
                    \* client's loop over the response meets them
    store,          \* the remote tickets, most recently modified first
    run,            \* one call of findTicketByHumanID: its locals, its
                    \* position, its result and the remote calls it issued
    twin,           \* a second call, on another spelling of the same human
                    \* ID, against the same remote state and the same
                    \* outcomes of the remote calls
    \* ---- date filters ----------------------------------------------------
    dateCall,       \* one call of MatchesDates: the filter set, the two
                    \* timestamp strings of the record and the result
    relCall,        \* one call of ParseRelativeTime: the expression, the
                    \* clock's reading and the result
    \* ---- upload pipeline -------------------------------------------------
    upload,         \* one run of "maps add": its arguments, its locals, its
                    \* position, its result, what it printed and the remote
                    \* calls it issued
    cloud,          \* the remote service: upload sessions, file records
                    \* (newest first) and conversion jobs
    \* ---- ticket commands -------------------------------------------------
    cmd             \* one run of a ticket command (get, update, assign,
                    \* close, open, list): its arguments, its locals, its
                    \* position, its result and the remote calls it issued

codecVars == <<couchDbID, hid, codecPc>>
resolverVars == <<listing, store, run, twin>>
dateVars == <<dateCall, relCall>>
uploadVars == <<upload, cloud>>
cmdVars == <<cmd>>

vars == <<codecVars, resolverVars, dateVars, uploadVars, cmdVars>>

(***************************************************************************)
(* Bounds of the model.                                                    *)
(***************************************************************************)
MaxIdChars == 7     \* longest enumerated identifier, in characters

(***************************************************************************)
(* Strings, bytes and runes.                                               *)
(***************************************************************************)
RECURSIVE Reverse(_)
Reverse(s) ==
    IF s = <<>> THEN <<>> ELSE Reverse(Tail(s)) \o <<Head(s)>>

RECURSIVE Flatten(_)
Flatten(ss) ==
    IF ss = <<>> THEN <<>> ELSE Head(ss) \o Flatten(Tail(ss))

Range(f) == {f[i] : i \in DOMAIN f}

\* The ASCII bytes the model uses: letters, digits, the separator of compound
\* identifiers and the punctuation of names and dates.

Lowers ==
    <<"a","b","c","d","e","f","g","h","i","j","k","l","m",
      "n","o","p","q","r","s","t","u","v","w","x","y","z">>
Uppers ==
    <<"A","B","C","D","E","F","G","H","I","J","K","L","M",
      "N","O","P","Q","R","S","T","U","V","W","X","Y","Z">>
AsciiDigit == {"0", "1", "2", "3", "4", "5", "6", "7", "8", "9"}
AsciiBytes ==
    Range(Lowers) \cup Range(Uppers) \cup AsciiDigit \cup {"|", "_", "-", ".", " ", ":"}

\* utf8.EncodeRune: the bytes of one rune.  U+00E9 and U+00C9 (e and E with
\* acute accent) take two bytes, U+FFFD (utf8.RuneError) takes three.
EncodeRune(r) ==
    CASE r = "U+00E9" -> <<"xC3", "xA9">>
      [] r = "U+00C9" -> <<"xC3", "x89">>
      [] r = "U+FFFD" -> <<"xEF", "xBF", "xBD">>
      [] OTHER -> <<r>>

EncodeRunes(rs) == Flatten([i \in 1..Len(rs) |-> EncodeRune(rs[i])])

\* []rune(s) and the range loop over a string: UTF-8 decoding, in which every
\* byte that starts no valid encoding decodes to U+FFFD on its own.
RECURSIVE DecodeRunes(_)
DecodeRunes(b) ==
    IF b = <<>> THEN <<>>
    ELSE IF Head(b) \in AsciiBytes
        THEN <<Head(b)>> \o DecodeRunes(Tail(b))
    ELSE IF Len(b) >= 2 /\ b[1] = "xC3" /\ b[2] = "xA9"
        THEN <<"U+00E9">> \o DecodeRunes(SubSeq(b, 3, Len(b)))
    ELSE IF Len(b) >= 2 /\ b[1] = "xC3" /\ b[2] = "x89"
        THEN <<"U+00C9">> \o DecodeRunes(SubSeq(b, 3, Len(b)))
    ELSE IF Len(b) >= 3 /\ b[1] = "xEF" /\ b[2] = "xBF" /\ b[3] = "xBD"
        THEN <<"U+FFFD">> \o DecodeRunes(SubSeq(b, 4, Len(b)))
    ELSE <<"U+FFFD">> \o DecodeRunes(Tail(b))

\* unicode.ToUpper and unicode.ToLower on one rune.
Runes == AsciiBytes \cup {"U+00E9", "U+00C9", "U+FFFD"}

UpperOf ==
    [r \in Runes |->
        IF \E i \in 1..26 : Lowers[i] = r
            THEN Uppers[CHOOSE i \in 1..26 : Lowers[i] = r]
        ELSE IF r = "U+00E9" THEN "U+00C9"
        ELSE r]

LowerOf ==
    [r \in Runes |->
        IF \E i \in 1..26 : Uppers[i] = r
            THEN Lowers[CHOOSE i \in 1..26 : Uppers[i] = r]
        ELSE IF r = "U+00C9" THEN "U+00E9"
        ELSE r]

ToUpperRune(r) == UpperOf[r]

ToLowerRune(r) == LowerOf[r]

\* strings.ToUpper / strings.ToLower: the mapping applied rune by rune
\* (strings.Map writes U+FFFD for a byte that is no valid UTF-8).
ToUpper(s) ==
    LET rs == DecodeRunes(s)
    IN  EncodeRunes([i \in 1..Len(rs) |-> ToUpperRune(rs[i])])

ToLower(s) ==
    LET rs == DecodeRunes(s)
    IN  EncodeRunes([i \in 1..Len(rs) |-> ToLowerRune(rs[i])])

(***************************************************************************)
(* cmd/util.go: humanID.                                                   *)
(***************************************************************************)
\* len() counts bytes and the slice takes the last 6 bytes; the reversal is
\* done on the runes those bytes decode to.
humanID(id) ==
    IF Len(id) < 6 THEN ToUpper(id)
    ELSE LET last6 == SubSeq(id, Len(id) - 5, Len(id))
             runes == DecodeRunes(last6)
         IN  ToUpper(EncodeRunes(Reverse(runes)))

\* The resolver at rest, in the specifications of the other components.
IdleResolver ==
    /\ listing = <<>>
    /\ store = <<>>
    /\ run = [pc |-> "idle"]
    /\ twin = [pc |-> "idle"]

\* The date filters at rest.
IdleDates ==
    /\ dateCall = [pc |-> "idle"]
    /\ relCall = [pc |-> "idle"]

\* The upload pipeline at rest.
IdleUpload ==
    /\ upload = [pc |-> "idle"]
    /\ cloud = [sessions |-> <<>>, files |-> <<>>, jobs |-> <<>>]

\* No ticket command running.
IdleCmd == cmd = [pc |-> "idle"]

(***************************************************************************)
(* The codec's inputs: every string of at most MaxIdChars characters over  *)
(* a small alphabet with a lower case letter, an upper case letter, a      *)
(* digit and a two-byte character, and the identifier of the README.       *)
(***************************************************************************)
IdChars == {"a", "F", "1", "U+00E9"}

CharStrings(n) == UNION {[1..k -> IdChars] : k \in 0..n}

ReadmeID ==
    <<"d","6","7","c","1","a","b","a","0","b","0","1","7","a","1","c",
      "9","3","7","2","e","7","2","6","c","6","5","1","2","a","1","f">>

ReadmeHumanID == <<"F", "1", "A", "2", "1", "5">>

CodecInputs ==
    {EncodeRunes(cs) : cs \in CharStrings(MaxIdChars)} \cup {ReadmeID}

IdleCodec ==
    /\ couchDbID = <<>>
    /\ hid = <<>>
    /\ codecPc = "idle"

InitCodec ==
    /\ couchDbID \in CodecInputs
    /\ hid = <<>>
    /\ codecPc = "input"
    /\ IdleResolver
    /\ IdleDates
    /\ IdleUpload
    /\ IdleCmd

\* One call of humanID.
EncodeID ==
    /\ codecPc = "input"
    /\ hid' = humanID(couchDbID)
    /\ codecPc' = "done"
    /\ UNCHANGED <<couchDbID, resolverVars, dateVars, uploadVars, cmdVars>>

NextCodec == EncodeID

SpecCodec == InitCodec /\ [][NextCodec]_vars

(***************************************************************************)
(* C1.  The claim as stated, over characters: for every input string s,    *)
(* humanID(s) is uppercase(s) when s has fewer than 6 characters, and      *)
(* otherwise the uppercase of the last 6 characters of s in reverse        *)
(* order.  The code measures and slices bytes, so the statement fails on   *)
(* an identifier that holds a multi-byte character.                        *)
(***************************************************************************)
SpecEncode(s) ==
    LET cs == DecodeRunes(s)
        up == [i \in 1..Len(cs) |-> ToUpperRune(cs[i])]
    IN  IF Len(cs) < 6 THEN EncodeRunes(up)
        ELSE EncodeRunes(Reverse(SubSeq(up, Len(up) - 5, Len(up))))

C1_EncodeAsStated ==
    codecPc = "done" => hid = SpecEncode(couchDbID)

\* What does hold: the statement on identifiers of single-byte characters,
\* and the README's example.
IsAscii(s) == \A i \in 1..Len(s) : s[i] \in AsciiBytes

C1_EncodeAscii ==
    (codecPc = "done" /\ IsAscii(couchDbID)) =>
        /\ hid = SpecEncode(couchDbID)
        /\ (couchDbID = ReadmeID => hid = ReadmeHumanID)

C1_WitnessAscii ==
    codecPc = "done" /\ couchDbID = ReadmeID /\ hid = ReadmeHumanID

(***************************************************************************)
(* The resolver: findTicketByHumanID (cmd/tickets.go) and                  *)
(* findAuditByHumanID (cmd/audits.go), which differ only in the endpoints  *)
(* they call.  The remote service is the client's view of it: what the     *)
(* requests of api.Client ask for and what the code's comments say the     *)
(* service answers.                                                        *)
(***************************************************************************)
MaxTickets == 2         \* remote tickets enumerated besides the decoys
SearchPageSize == 10    \* "size=10&page=0" of the batched search

EmptyString == <<>>

GlacierProjectID ==
    <<"g","l","a","c","i","e","r","_","p","r","o","j","e","c","t","_",
      "d","o","c","u","m","e","n","t","s">>
P1 == <<"p", "1">>
P2 == <<"p", "2">>

\* Ticket identifiers: T1 and T2 share their last 6 bytes (one human ID for
\* two tickets); T3 ends with the lower-cased human ID of T1 itself, which the
\* search matches as well and which encodes to another human ID.
T1 == <<"9", "a", "1", "b", "2", "c", "3">>
T2 == <<"8", "a", "1", "b", "2", "c", "3">>
T3 == <<"7", "3", "c", "2", "b", "1", "a">>
TicketIDs == {T1, T2, T3}

\* SearchPageSize further tickets of project P1 that end like T3.
DecoyID(k) == <<CHOOSE d \in AsciiDigit : d = ToString(k)>> \o Tail(T3)

\* A remote ticket: its project, its couchDbId, and whether the search
\* response carries its "id" field ("<project>|<couchDbId>").
Decoys ==
    [k \in 1..SearchPageSize |->
        [project |-> P1, CouchDbID |-> DecoyID(k - 1), withID |-> TRUE]]

RemoteTickets ==
    [project : {P1, P2}, CouchDbID : TicketIDs, withID : BOOLEAN]

\* A couchDbId names one document of a project.
UniqueInProject(s) ==
    \A i, j \in 1..Len(s) :
        (s[i].project = s[j].project /\ s[i].CouchDbID = s[j].CouchDbID) => i = j

Stores ==
    {d \o s : d \in {<<>>, Decoys},
              s \in {t \in UNION {[1..n -> RemoteTickets] : n \in 0..MaxTickets} :
                        UniqueInProject(t)}}

\* What ListProjects returns: the glacier project and two projects, each
\* active or not.  The response is a JSON object, which the client ranges over
\* as a Go map: the order is any.  Both orders of the two projects are
\* enumerated when both are candidates, where the order shows in the fallback.
Listings ==
    {<<[ProjectID |-> GlacierProjectID, IsActive |-> TRUE],
       [ProjectID |-> o[1], IsActive |-> x],
       [ProjectID |-> o[2], IsActive |-> y]>> :
        o \in {<<P1, P2>>}, x \in BOOLEAN, y \in BOOLEAN}
    \cup
    {<<[ProjectID |-> GlacierProjectID, IsActive |-> TRUE],
       [ProjectID |-> P2, IsActive |-> TRUE],
       [ProjectID |-> P1, IsActive |-> TRUE]>>}

\* ---- the remote service, as the client's requests address it --------------
HasSuffix(s, suffix) ==
    /\ Len(suffix) <= Len(s)
    /\ SubSeq(s, Len(s) - Len(suffix) + 1, Len(s)) = suffix

\* tickets.go:492: "The API searches for IDs ending with the value or its
\* reverse (case-insensitive)".
MatchesSearchByID(id, searchById) ==
    \/ HasSuffix(ToLower(id), ToLower(searchById))
    \/ HasSuffix(ToLower(id), Reverse(ToLower(searchById)))

SearchHit(t) ==
    [CouchDbID |-> t.CouchDbID,
     ID |-> IF t.withID THEN t.project \o <<"|">> \o t.CouchDbID ELSE EmptyString]

\* Client.SearchTicketsByID: one POST for all the projects, sorted by
\* LASTMODIFIEDDATE descending, page 0 of size 10.
SearchTicketsByID(remote, projectIDs, searchById) ==
    LET Hit(t) == t.project \in Range(projectIDs)
                  /\ MatchesSearchByID(t.CouchDbID, searchById)
        hits == SelectSeq(remote, Hit)
        page == IF Len(hits) > SearchPageSize
                    THEN SubSeq(hits, 1, SearchPageSize) ELSE hits
    IN  [i \in 1..Len(page) |-> SearchHit(page[i])]

\* Client.GetTicket answers with the document when the project holds it.
TicketExists(remote, projectID, id) ==
    \E i \in 1..Len(remote) :
        remote[i].project = projectID /\ remote[i].CouchDbID = id

\* ---- findTicketByHumanID, statement by statement ---------------------------
Contains(s, b) == \E i \in 1..Len(s) : s[i] = b

\* A split at the last "|" instead of the first.
BeforeLastBar(s) ==
    LET i == CHOOSE k \in 1..Len(s) :
                 s[k] = "|" /\ \A m \in (k + 1)..Len(s) : s[m] # "|"
    IN  SubSeq(s, 1, i - 1)

\* strings.SplitN(s, "|", 2)[0]
BeforeFirstBar(s) ==
    LET i == CHOOSE k \in 1..Len(s) :
                 s[k] = "|" /\ \A m \in 1..(k - 1) : s[m] # "|"
    IN  SubSeq(s, 1, i - 1)

\* The loop of tickets.go:482-488 with the glacier project left in.
CandidateProjects_WithGlacier(projects) ==
    LET Keep(p) == p.IsActive
        kept == SelectSeq(projects, Keep)
    IN  [i \in 1..Len(kept) |-> kept[i].ProjectID]

\* tickets.go:482-488: the listed projects that are active and not the
\* glacier project, in the order listed.
CandidateProjects(projects) ==
    LET Keep(p) == ~(p.ProjectID = GlacierProjectID \/ ~p.IsActive)
        kept == SelectSeq(projects, Keep)
    IN  [i \in 1..Len(kept) |-> kept[i].ProjectID]

NoResult == [project |-> EmptyString, id |-> EmptyString, err |-> "pending"]

Failed(kind) == [project |-> EmptyString, id |-> EmptyString, err |-> kind]

Found(projectID, id) == [project |-> projectID, id |-> id, err |-> "nil"]

\* A call about to start: the arguments, nothing computed yet.
NewRun(searchID, limitToDatabase) ==
    [pc |-> "start",
     arg |-> searchID,                  \* the searchID passed in
     limitToDatabase |-> limitToDatabase,
     searchID |-> EmptyString,          \* the local searchID once normalised
     projectIDs |-> <<>>,
     tickets |-> <<>>,                  \* what the search returned
     ti |-> 0,                          \* index of the ticket loop
     pj |-> 0,                          \* index of the fallback loop
     ret |-> NoResult,
     calls |-> <<>>,                    \* the remote calls issued, in order
     faults |-> <<>>]                   \* the calls that returned an error
                                        \* although the service holds what
                                        \* they asked for (transport errors)

\* A normalisation that keeps the spelling the user typed.
Normalise_Verbatim(searchID) == searchID

\* tickets.go:471
Normalise(searchID) == ToUpper(searchID)

\* tickets.go:471-477: normalise the ID; with a project given, it alone is the
\* candidate list and the project list is not asked for.
StepStart(r) ==
    IF r.limitToDatabase # EmptyString
        THEN [r EXCEPT !.searchID = Normalise(r.arg),
                       !.projectIDs = <<r.limitToDatabase>>,
                       !.pc = "search"]
        ELSE [r EXCEPT !.searchID = Normalise(r.arg), !.pc = "list"]

\* tickets.go:478-488: ListProjects (Client.Email, which asks /users/me on a
\* client that has not cached the email, then the project list).
StepList(r, projects, outcome) ==
    CASE outcome = "emailError" ->
            [r EXCEPT !.calls = @ \o <<[op |-> "GetCurrentUser"]>>,
                      !.faults = @ \o <<"email">>,
                      !.ret = Failed("email"), !.pc = "done"]
      [] outcome = "listError" ->
            [r EXCEPT !.calls = @ \o <<[op |-> "GetCurrentUser"], [op |-> "ListProjects"]>>,
                      !.faults = @ \o <<"list">>,
                      !.ret = Failed("list"), !.pc = "done"]
      [] OTHER ->
            [r EXCEPT !.calls = @ \o <<[op |-> "GetCurrentUser"], [op |-> "ListProjects"]>>,
                      !.projectIDs = CandidateProjects(projects),
                      !.pc = "search"]

\* A search whose failure is taken for an empty answer.
StepSearch_IgnoreError(r, remote, outcome) ==
    LET call == [op |-> "Search", projects |-> r.projectIDs,
                 searchById |-> ToLower(r.searchID)]
    IN  IF outcome = "error"
            THEN [r EXCEPT !.calls = @ \o <<call>>,
                           !.faults = @ \o <<"search">>,
                           !.ti = 1, !.pc = "scan"]
            ELSE [r EXCEPT !.calls = @ \o <<call>>,
                           !.tickets = SearchTicketsByID(remote, r.projectIDs,
                                                         ToLower(r.searchID)),
                           !.ti = 1, !.pc = "scan"]

\* tickets.go:494-497
StepSearch(r, remote, outcome) ==
    LET call == [op |-> "Search", projects |-> r.projectIDs,
                 searchById |-> ToLower(r.searchID)]
    IN  IF outcome = "error"
            THEN [r EXCEPT !.calls = @ \o <<call>>,
                           !.faults = @ \o <<"search">>,
                           !.ret = Failed("search"), !.pc = "done"]
            ELSE [r EXCEPT !.calls = @ \o <<call>>,
                           !.tickets = SearchTicketsByID(remote, r.projectIDs,
                                                         ToLower(r.searchID)),
                           !.ti = 1, !.pc = "scan"]

\* A loop that trusts the search and does not recompute the human ID.
StepScan_NoVerify(r) ==
    IF r.ti > Len(r.tickets)
        THEN [r EXCEPT !.ret = Failed("notfound"), !.pc = "done"]
    ELSE LET ticket == r.tickets[r.ti]
         IN  IF ticket.ID # EmptyString /\ Contains(ticket.ID, "|")
                 THEN [r EXCEPT !.ret = Found(BeforeFirstBar(ticket.ID), ticket.CouchDbID),
                                !.pc = "done"]
             ELSE IF Len(r.projectIDs) = 0
                 THEN [r EXCEPT !.ti = @ + 1]
             ELSE [r EXCEPT !.pj = 1, !.pc = "probe"]

\* A slip a maintainer could make: the project of a match that carries a
\* compound "id" is taken from the --project option.
StepScan_ScopeProject(r) ==
    IF r.ti > Len(r.tickets)
        THEN [r EXCEPT !.ret = Failed("notfound"), !.pc = "done"]
    ELSE LET ticket == r.tickets[r.ti]
         IN  IF humanID(ticket.CouchDbID) # r.searchID
                 THEN [r EXCEPT !.ti = @ + 1]
             ELSE IF ticket.ID # EmptyString /\ Contains(ticket.ID, "|")
                 THEN [r EXCEPT !.ret = Found(r.limitToDatabase, ticket.CouchDbID),
                                !.pc = "done"]
             ELSE IF Len(r.projectIDs) = 0
                 THEN [r EXCEPT !.ti = @ + 1]
             ELSE [r EXCEPT !.pj = 1, !.pc = "probe"]

\* tickets.go:500-506 and 517: the next ticket of the loop.
StepScan(r) ==
    IF r.ti > Len(r.tickets)
        THEN [r EXCEPT !.ret = Failed("notfound"), !.pc = "done"]
    ELSE LET ticket == r.tickets[r.ti]
         IN  IF humanID(ticket.CouchDbID) # r.searchID
                 THEN [r EXCEPT !.ti = @ + 1]
             ELSE IF ticket.ID # EmptyString /\ Contains(ticket.ID, "|")
                 THEN [r EXCEPT !.ret = Found(BeforeFirstBar(ticket.ID), ticket.CouchDbID),
                                !.pc = "done"]
             ELSE IF Len(r.projectIDs) = 0
                 THEN [r EXCEPT !.ti = @ + 1]
             ELSE [r EXCEPT !.pj = 1, !.pc = "probe"]

\* A fallback that gives up at the first GetTicket that fails.
StepProbe_AbortOnError(r, remote, outcome) ==
    LET projectID == r.projectIDs[r.pj]
        id == r.tickets[r.ti].CouchDbID
        call == [op |-> "GetTicket", project |-> projectID, id |-> id]
        transport == outcome = "error" /\ TicketExists(remote, projectID, id)
        err == outcome = "error" \/ ~TicketExists(remote, projectID, id)
        r1 == [r EXCEPT !.calls = @ \o <<call>>,
                        !.faults = IF transport THEN @ \o <<"get">> ELSE @]
    IN  IF ~err
            THEN [r1 EXCEPT !.ret = Found(projectID, id), !.pc = "done"]
            ELSE [r1 EXCEPT !.ret = Failed("get"), !.pc = "done"]

\* A fallback that takes any answer of GetTicket for a success.
StepProbe_IgnoreError(r, remote, outcome) ==
    LET projectID == r.projectIDs[r.pj]
        id == r.tickets[r.ti].CouchDbID
        call == [op |-> "GetTicket", project |-> projectID, id |-> id]
    IN  [r EXCEPT !.calls = @ \o <<call>>,
                  !.ret = Found(projectID, id), !.pc = "done"]

\* tickets.go:508-513: one GetTicket of the fallback loop.  The call fails
\* when the project does not hold the ticket and when the transport fails.
StepProbe(r, remote, outcome) ==
    LET projectID == r.projectIDs[r.pj]
        id == r.tickets[r.ti].CouchDbID
        call == [op |-> "GetTicket", project |-> projectID, id |-> id]
        transport == outcome = "error" /\ TicketExists(remote, projectID, id)
        err == outcome = "error" \/ ~TicketExists(remote, projectID, id)
        r1 == [r EXCEPT !.calls = @ \o <<call>>,
                        !.faults = IF transport THEN @ \o <<"get">> ELSE @]
    IN  IF ~err
            THEN [r1 EXCEPT !.ret = Found(projectID, id), !.pc = "done"]
        ELSE IF r.pj < Len(r.projectIDs)
            THEN [r1 EXCEPT !.pj = @ + 1]
        ELSE [r1 EXCEPT !.ti = @ + 1, !.pc = "scan"]

\* The twin takes the step of the run while it stands where the run stands.
TwinStep(pcv, stepped) == IF twin.pc = pcv THEN stepped ELSE twin

Start ==
    /\ run.pc = "start"
    /\ run' = StepStart(run)
    /\ twin' = TwinStep("start", StepStart(twin))
    /\ UNCHANGED <<listing, store, codecVars, dateVars, uploadVars, cmdVars>>

ListProjects ==
    /\ run.pc = "list"
    /\ \E outcome \in {"ok", "emailError", "listError"} :
         /\ run' = StepList(run, listing, outcome)
         /\ twin' = TwinStep("list", StepList(twin, listing, outcome))
    /\ UNCHANGED <<listing, store, codecVars, dateVars, uploadVars, cmdVars>>

Search ==
    /\ run.pc = "search"
    /\ \E outcome \in {"ok", "error"} :
         /\ run' = StepSearch(run, store, outcome)
         /\ twin' = TwinStep("search", StepSearch(twin, store, outcome))
    /\ UNCHANGED <<listing, store, codecVars, dateVars, uploadVars, cmdVars>>

Scan ==
    /\ run.pc = "scan"
    /\ run' = StepScan(run)
    /\ twin' = TwinStep("scan", StepScan(twin))
    /\ UNCHANGED <<listing, store, codecVars, dateVars, uploadVars, cmdVars>>

Probe ==
    /\ run.pc = "probe"
    /\ \E outcome \in {"ok", "error"} :
         /\ run' = StepProbe(run, store, outcome)
         /\ twin' = TwinStep("probe", StepProbe(twin, store, outcome))
    /\ UNCHANGED <<listing, store, codecVars, dateVars, uploadVars, cmdVars>>

NextResolve == Start \/ ListProjects \/ Search \/ Scan \/ Probe

\* The human IDs asked for: that of T1 and T2 in upper and in lower case, and
\* one no ticket has.  The project is given (P1) or not.
HumanIDs ==
    {humanID(T1), ToLower(humanID(T1)), <<"F", "F", "F", "F", "F", "F">>}

Scopes == {EmptyString, P1}

InitResolve ==
    /\ listing \in Listings
    /\ store \in Stores
    /\ \E h \in HumanIDs, d \in Scopes :
         /\ run = NewRun(h, d)
         /\ twin = [pc |-> "idle"]
    /\ IdleCodec
    /\ IdleDates
    /\ IdleUpload
    /\ IdleCmd

SpecResolve == InitResolve /\ [][NextResolve]_vars

\* The same call twice, the second on another spelling of the human ID.
AltCase(s) ==
    [i \in 1..Len(s) |-> IF i % 2 = 0 THEN ToLowerRune(s[i]) ELSE ToUpperRune(s[i])]

Spellings(h) == {ToUpper(h), ToLower(h), AltCase(h)} \ {h}

InitResolveTwin ==
    /\ listing \in Listings
    /\ store \in Stores
    /\ \E h \in HumanIDs, d \in Scopes :
         /\ run = NewRun(h, d)
         /\ \E g \in Spellings(h) : twin = NewRun(g, d)
    /\ IdleCodec
    /\ IdleDates
    /\ IdleUpload
    /\ IdleCmd

SpecResolveTwin == InitResolveTwin /\ [][NextResolve]_vars

(***************************************************************************)
(* What the claims speak of.                                               *)
(***************************************************************************)
\* The human ID a call asks for, whatever the case it was typed in.
AskedHumanID == ToUpper(run.arg)

ActiveNonArchival ==
    {listing[i].ProjectID : i \in {k \in 1..Len(listing) :
        listing[k].IsActive /\ listing[k].ProjectID # GlacierProjectID}}

\* The candidate project set of the claims.
ClaimedCandidates ==
    IF run.limitToDatabase # EmptyString
        THEN {run.limitToDatabase}
        ELSE ActiveNonArchival

\* The projects of a set that hold a ticket encoding to human ID h.
Owners(projectSet, h) ==
    {p \in projectSet :
        \E i \in 1..Len(store) :
            store[i].project = p /\ humanID(store[i].CouchDbID) = h}

ReturnsRecordOf(projectSet) ==
    /\ run.ret.err = "nil"
    /\ run.ret.project \in projectSet
    /\ TicketExists(store, run.ret.project, run.ret.id)
    /\ humanID(run.ret.id) = AskedHumanID

PageHasMatch ==
    \E i \in 1..Len(run.tickets) :
        humanID(run.tickets[i].CouchDbID) = AskedHumanID

C3_AbsentIsNotFound ==
    (/\ run.pc = "done"
     /\ Owners(ClaimedCandidates, AskedHumanID) = {})
    => run.ret = Failed("notfound")

(***************************************************************************)
(* C3 as amended: a call on a human ID that no record of a candidate       *)
(* project encodes to returns an error and the empty pair, never a pair    *)
(* with a nil error: the not-found error when the project listing and the  *)
(* search succeed, and otherwise the error of the call that failed.        *)
(***************************************************************************)
C3_AbsentIsAnError ==
    (/\ run.pc = "done"
     /\ Owners(ClaimedCandidates, AskedHumanID) = {})
    => /\ run.ret.err # "nil"
       /\ run.ret.project = EmptyString /\ run.ret.id = EmptyString
       /\ run.faults = <<>> => run.ret = Failed("notfound")
       /\ run.faults # <<>> => run.ret = Failed(run.faults[1])

\* The case: the search returned tickets, none of which encodes to the ID.
C3_Witness ==
    /\ run.pc = "done"
    /\ Owners(ClaimedCandidates, AskedHumanID) = {}
    /\ Len(run.tickets) > 0
    /\ run.ret = Failed("notfound")

(***************************************************************************)
(* C4: the candidate projects of a call are exactly the given project when *)
(* one is given, and then the project list is not fetched; otherwise they  *)
(* are exactly the listed projects that are active and are not the glacier *)
(* project.  The search and every get-by-id address these and no other.    *)
(***************************************************************************)
C4_CandidateSet ==
    /\ run.pc \in {"search", "scan", "probe"} =>
          /\ Range(run.projectIDs) = ClaimedCandidates
          /\ Len(run.projectIDs) = Cardinality(ClaimedCandidates)
    /\ \A k \in 1..Len(run.calls) :
          /\ run.calls[k].op = "Search" =>
                Range(run.calls[k].projects) = ClaimedCandidates
          /\ run.calls[k].op = "GetTicket" =>
                run.calls[k].project \in ClaimedCandidates
          /\ run.calls[k].op \in {"ListProjects", "GetCurrentUser"} =>
                run.limitToDatabase = EmptyString

\* The case: no project given, the glacier project and an inactive project
\* listed, the search issued for the one remaining project.
C4_Witness ==
    /\ run.limitToDatabase = EmptyString
    /\ \E i \in 1..Len(listing) : ~listing[i].IsActive
    /\ \E i \in 1..Len(listing) : listing[i].ProjectID = GlacierProjectID
    /\ \E k \in 1..Len(run.calls) :
          run.calls[k].op = "Search" /\ Len(run.calls[k].projects) = 1

(***************************************************************************)
(* C5: two calls whose human IDs differ only in letter case, against the   *)
(* same remote state and the same outcomes of the remote calls, send the   *)
(* same lower-case search query and end in the same result.                *)
(***************************************************************************)
C5_CaseInsensitive ==
    /\ twin.pc = run.pc
    /\ twin.calls = run.calls
    /\ twin.ret = run.ret
    /\ \A k \in 1..Len(run.calls) :
          run.calls[k].op = "Search" =>
              run.calls[k].searchById = ToLower(run.arg)

\* The case: the two spellings differ and both calls found the ticket.
C5_Witness ==
    /\ run.pc = "done" /\ twin.pc = "done"
    /\ twin.arg # run.arg
    /\ run.ret.err = "nil"
    /\ twin.ret = run.ret

(***************************************************************************)
(* The date filters: time.Time as far as the filters see it.               *)
(*                                                                         *)
(* An instant is a day number (days since 1970-01-01, UTC), the second of  *)
(* that day and the nanosecond of that second.  Timestamps are strings of  *)
(* one-character tokens, parsed as time.Parse parses them.                 *)
(***************************************************************************)
MaxStampDays == 3   \* days the enumerated timestamps spread over
MaxRelDigits == 2   \* longest enumerated count of a relative expression

Digits == <<"0", "1", "2", "3", "4", "5", "6", "7", "8", "9">>

IsDigit(c) == \E i \in 1..10 : Digits[i] = c

DigitVal(c) == (CHOOSE i \in 1..10 : Digits[i] = c) - 1

AllDigits(s) == \A i \in 1..Len(s) : IsDigit(s[i])

\* The value of a short digit string (the fields of a timestamp).
RECURSIVE NumVal(_)
NumVal(s) ==
    IF s = <<>> THEN 0
    ELSE 10 * NumVal(SubSeq(s, 1, Len(s) - 1)) + DigitVal(s[Len(s)])

RECURSIVE Pow10(_)
Pow10(k) == IF k = 0 THEN 1 ELSE 10 * Pow10(k - 1)

\* n in w digits, zero padded.
Pad(n, w) == [i \in 1..w |-> Digits[((n \div Pow10(w - i)) % 10) + 1]]

IsLeap(y) == (y % 4 = 0 /\ y % 100 # 0) \/ y % 400 = 0

daysIn(m, y) ==
    IF m = 2 THEN (IF IsLeap(y) THEN 29 ELSE 28)
    ELSE IF m \in {4, 6, 9, 11} THEN 30 ELSE 31

\* The day number of a civil date; linear in d, so that a day outside its
\* month lands where time.Date's normalisation puts it.
DaysFromCivil(y, m, d) ==
    LET yy  == IF m <= 2 THEN y - 1 ELSE y
        era == yy \div 400
        yoe == yy - era * 400
        mp  == IF m > 2 THEN m - 3 ELSE m + 9
        doy == (153 * mp + 2) \div 5 + d - 1
        doe == yoe * 365 + yoe \div 4 - yoe \div 100 + doy
    IN  era * 146097 + doe - 719468

CivilFromDays(z) ==
    LET zz  == z + 719468
        era == zz \div 146097
        doe == zz - era * 146097
        yoe == (doe - doe \div 1460 + doe \div 36524 - doe \div 146096) \div 365
        doy == doe - (365 * yoe + yoe \div 4 - yoe \div 100)
        mp  == (5 * doy + 2) \div 153
        d   == doy - (153 * mp + 2) \div 5 + 1
        m   == IF mp < 10 THEN mp + 3 ELSE mp - 9
        y   == yoe + era * 400 + (IF m <= 2 THEN 1 ELSE 0)
    IN  [y |-> y, m |-> m, d |-> d]

Instant(day, sec, nsec) == [day |-> day, sec |-> sec, nsec |-> nsec]

\* time.Time{}: January 1, year 1, 00:00:00 UTC.
ZeroTime == Instant(DaysFromCivil(1, 1, 1), 0, 0)

\* Time.Before and Time.After.
Before(t, u) ==
    \/ t.day < u.day
    \/ t.day = u.day /\ t.sec < u.sec
    \/ t.day = u.day /\ t.sec = u.sec /\ t.nsec < u.nsec

After(t, u) == Before(u, t)

\* Time.AddDate: the civil date of t moved by years, months and days, the
\* clock kept; time.Date normalises a month outside 1..12 and a day outside
\* its month.
AddDate(t, years, months, days) ==
    LET c  == CivilFromDays(t.day)
        m0 == c.m - 1 + months
        y1 == c.y + years + m0 \div 12
        m1 == (m0 % 12) + 1
    IN  [t EXCEPT !.day = DaysFromCivil(y1, m1, 1) + c.d - 1 + days]

(***************************************************************************)
(* time.Parse, for the layouts parseAPIDate tries.  A layout is the        *)
(* sequence of its chunks: a reference field or a literal character.       *)
(***************************************************************************)
DateLayout == <<"2006", "-", "01", "-", "02">>

ClockLayout == <<"T", "15", ":", "04", ":", "05">>

RFC3339 == DateLayout \o ClockLayout \o <<"Z07:00">>

Formats ==
    <<RFC3339,
      DateLayout \o ClockLayout \o <<".000", "Z">>,
      DateLayout \o ClockLayout \o <<"Z">>,
      DateLayout \o ClockLayout,
      DateLayout>>

ParseError == [err |-> TRUE, t |-> ZeroTime]

NoFields ==
    [y |-> 0, m |-> 1, d |-> 1, hh |-> 0, mm |-> 0, ss |-> 0, nsec |-> 0,
     off |-> 0]

\* The number of leading digits of v.
RECURSIVE DigitsLen(_)
DigitsLen(v) ==
    IF v # <<>> /\ IsDigit(Head(v)) THEN 1 + DigitsLen(Tail(v)) ELSE 0

\* parseNanoseconds: the digits after the decimal mark, scaled to 9 places.
Nanoseconds(ds) ==
    IF Len(ds) > 9 THEN -1 ELSE NumVal(ds) * Pow10(9 - Len(ds))

Drop(v, n) == SubSeq(v, n + 1, Len(v))

\* The fields read so far are valid as a whole: the day exists in its month.
FieldsToTime(a) ==
    IF a.d < 1 \/ a.d > daysIn(a.m, a.y) THEN ParseError
    ELSE LET secs == a.hh * 3600 + a.mm * 60 + a.ss - a.off
             day  == DaysFromCivil(a.y, a.m, a.d) + secs \div 86400
         IN  [err |-> FALSE, t |-> Instant(day, secs % 86400, a.nsec)]

RECURSIVE ParseChunks(_, _, _)
ParseChunks(layout, v, a) ==
    IF layout = <<>>
    THEN IF v = <<>> THEN FieldsToTime(a) ELSE ParseError     \* extra text
    ELSE
    LET std  == Head(layout)
        rest == Tail(layout)
        two  == Len(v) >= 2 /\ IsDigit(v[1]) /\ IsDigit(v[2])
        n2   == NumVal(SubSeq(v, 1, 2))
    IN
    CASE std = "2006" ->
           IF Len(v) >= 4 /\ AllDigits(SubSeq(v, 1, 4))
           THEN ParseChunks(rest, Drop(v, 4),
                            [a EXCEPT !.y = NumVal(SubSeq(v, 1, 4))])
           ELSE ParseError
      [] std = "01" ->
           IF two /\ n2 >= 1 /\ n2 <= 12
           THEN ParseChunks(rest, Drop(v, 2), [a EXCEPT !.m = n2])
           ELSE ParseError
      [] std = "02" ->
           IF two
           THEN ParseChunks(rest, Drop(v, 2), [a EXCEPT !.d = n2])
           ELSE ParseError
      [] std = "15" ->
           \* getnum(value, false): one digit is taken when no second follows
           IF two
           THEN IF n2 < 24
                THEN ParseChunks(rest, Drop(v, 2), [a EXCEPT !.hh = n2])
                ELSE ParseError
           ELSE IF v # <<>> /\ IsDigit(v[1])
                THEN ParseChunks(rest, Drop(v, 1),
                                 [a EXCEPT !.hh = DigitVal(v[1])])
                ELSE ParseError
      [] std = "04" ->
           IF two /\ n2 < 60
           THEN ParseChunks(rest, Drop(v, 2), [a EXCEPT !.mm = n2])
           ELSE ParseError
      [] std = "05" ->
           IF two /\ n2 < 60
           THEN LET w    == Drop(v, 2)
                    frac == /\ Len(w) >= 2
                            /\ w[1] \in {".", ","}
                            /\ IsDigit(w[2])
                            /\ (rest = <<>> \/ Head(rest) # ".000")
                    k    == DigitsLen(Drop(w, 1))
                    ns   == Nanoseconds(SubSeq(w, 2, 1 + k))
                IN  IF ~frac
                    THEN ParseChunks(rest, w, [a EXCEPT !.ss = n2])
                    ELSE IF ns < 0 THEN ParseError
                    ELSE ParseChunks(rest, Drop(w, 1 + k),
                                     [a EXCEPT !.ss = n2, !.nsec = ns])
           ELSE ParseError
      [] std = ".000" ->
           IF Len(v) >= 4 /\ v[1] \in {".", ","} /\ AllDigits(SubSeq(v, 2, 4))
           THEN ParseChunks(rest, Drop(v, 4),
                            [a EXCEPT !.nsec = Nanoseconds(SubSeq(v, 2, 4))])
           ELSE ParseError
      [] std = "Z07:00" ->
           IF v # <<>> /\ v[1] = "Z"
           THEN ParseChunks(rest, Drop(v, 1), a)
           ELSE IF /\ Len(v) >= 6
                   /\ v[1] \in {"+", "-"}
                   /\ v[4] = ":"
                   /\ AllDigits(SubSeq(v, 2, 3))
                   /\ AllDigits(SubSeq(v, 5, 6))
                   /\ NumVal(SubSeq(v, 2, 3)) <= 24
                   /\ NumVal(SubSeq(v, 5, 6)) <= 60
                THEN LET o == NumVal(SubSeq(v, 2, 3)) * 3600
                              + NumVal(SubSeq(v, 5, 6)) * 60
                     IN  ParseChunks(rest, Drop(v, 6),
                             [a EXCEPT !.off = IF v[1] = "-" THEN 0 - o ELSE o])
                ELSE ParseError
      [] OTHER ->
           \* a literal of the layout
           IF v # <<>> /\ v[1] = std
           THEN ParseChunks(rest, Drop(v, 1), a)
           ELSE ParseError

\* time.Parse(layout, s)
Parse(layout, s) == ParseChunks(layout, s, NoFields)

\* parseAPIDate: the empty string is an error; otherwise the first layout
\* that parses the string gives the time.
RECURSIVE TryFormats(_, _)
TryFormats(formats, s) ==
    IF formats = <<>> THEN ParseError
    ELSE LET r == Parse(Head(formats), s)
         IN  IF ~r.err THEN r ELSE TryFormats(Tail(formats), s)

parseAPIDate(s) == IF s = <<>> THEN ParseError ELSE TryFormats(Formats, s)

\* A bound of a DateFilterSet: a *time.Time, nil or not.
Nil == [set |-> FALSE, t |-> ZeroTime]

Ptr(t) == [set |-> TRUE, t |-> t]

\* A slip a maintainer could make: a record whose date cannot be read passes.
MatchesDates_FailOpen(f, createdStr, modifiedStr) ==
    LET created  == parseAPIDate(createdStr)
        modified == parseAPIDate(modifiedStr)
        createdOk ==
            (f.CreatedAfter.set \/ f.CreatedBefore.set) =>
                \/ created.err
                \/ /\ ~(f.CreatedAfter.set /\ Before(created.t, f.CreatedAfter.t))
                   /\ ~(f.CreatedBefore.set /\ After(created.t, f.CreatedBefore.t))
        modifiedOk ==
            (f.ModifiedAfter.set \/ f.ModifiedBefore.set) =>
                \/ modified.err
                \/ /\ ~(f.ModifiedAfter.set /\ Before(modified.t, f.ModifiedAfter.t))
                   /\ ~(f.ModifiedBefore.set /\ After(modified.t, f.ModifiedBefore.t))
    IN  createdOk /\ modifiedOk

\* A slip a maintainer could make: the bounds are exclusive.
MatchesDates_Exclusive(f, createdStr, modifiedStr) ==
    LET created  == parseAPIDate(createdStr)
        modified == parseAPIDate(modifiedStr)
        createdOk ==
            (f.CreatedAfter.set \/ f.CreatedBefore.set) =>
                /\ ~created.err
                /\ ~(f.CreatedAfter.set /\ ~After(created.t, f.CreatedAfter.t))
                /\ ~(f.CreatedBefore.set /\ ~Before(created.t, f.CreatedBefore.t))
        modifiedOk ==
            (f.ModifiedAfter.set \/ f.ModifiedBefore.set) =>
                /\ ~modified.err
                /\ ~(f.ModifiedAfter.set /\ ~After(modified.t, f.ModifiedAfter.t))
                /\ ~(f.ModifiedBefore.set /\ ~Before(modified.t, f.ModifiedBefore.t))
    IN  createdOk /\ modifiedOk

\* DateFilterSet.MatchesDates
MatchesDates(f, createdStr, modifiedStr) ==
    LET created  == parseAPIDate(createdStr)
        modified == parseAPIDate(modifiedStr)
        createdFails ==
            /\ f.CreatedAfter.set \/ f.CreatedBefore.set
            /\ \/ created.err
               \/ f.CreatedAfter.set /\ Before(created.t, f.CreatedAfter.t)
               \/ f.CreatedBefore.set /\ After(created.t, f.CreatedBefore.t)
        modifiedFails ==
            /\ f.ModifiedAfter.set \/ f.ModifiedBefore.set
            /\ \/ modified.err
               \/ f.ModifiedAfter.set /\ Before(modified.t, f.ModifiedAfter.t)
               \/ f.ModifiedBefore.set /\ After(modified.t, f.ModifiedBefore.t)
    IN  IF createdFails THEN FALSE
        ELSE IF modifiedFails THEN FALSE
        ELSE TRUE

(***************************************************************************)
(* The timestamps of the records: what the API sends in creationDate and   *)
(* lastModifiedDate, well formed in each of the shapes parseAPIDate knows, *)
(* and malformed.                                                          *)
(***************************************************************************)
FormatDate(day) ==
    LET c == CivilFromDays(day)
    IN  Pad(c.y, 4) \o <<"-">> \o Pad(c.m, 2) \o <<"-">> \o Pad(c.d, 2)

FormatClock(sec) ==
    Pad(sec \div 3600, 2) \o <<":">> \o Pad((sec \div 60) % 60, 2)
    \o <<":">> \o Pad(sec % 60, 2)

StampOffset == 7200     \* the zone of the "offset" shape: +02:00

StampKinds == {"date", "naive", "z", "ms", "offset"}

Stamp(kind, t) ==
    LET naive == FormatDate(t.day) \o <<"T">> \o FormatClock(t.sec)
        local == t.sec + StampOffset
    IN  CASE kind = "date"   -> FormatDate(t.day)
          [] kind = "naive"  -> naive
          [] kind = "z"      -> naive \o <<"Z">>
          [] kind = "ms"     ->
                naive \o <<".">> \o Pad(t.nsec \div 1000000, 3) \o <<"Z">>
          [] kind = "offset" ->
                FormatDate(t.day + local \div 86400) \o <<"T">>
                \o FormatClock(local % 86400) \o <<"+", "0", "2", ":", "0", "0">>

StampBase == DaysFromCivil(2026, 2, 27)

StampDays == StampBase .. (StampBase + MaxStampDays - 1)

Noon == 43200

HalfSecond == 500000000

\* The instants a kind of timestamp is enumerated at.
StampInstants(kind) ==
    CASE kind = "date" -> {Instant(d, 0, 0) : d \in StampDays}
      [] kind = "ms"   -> {Instant(d, s, HalfSecond) : d \in StampDays, s \in {0, Noon}}
      [] OTHER         -> {Instant(d, s, 0) : d \in StampDays, s \in {0, Noon}}

WellFormedStamps ==
    UNION {{Stamp(k, t) : t \in StampInstants(k)} : k \in StampKinds}

MalformedStamps ==
    LET day == FormatDate(StampBase)
    IN  { <<>>,
          <<"n", "/", "a">>,
          <<"2", "0", "2", "6", "-", "0", "2", "-", "3", "0">>,
          <<"2", "0", "2", "6", "-", "1", "3", "-", "0", "1">>,
          <<"2", "0", "2", "6", "-", "3", "-", "1">>,
          day \o <<" ">> \o FormatClock(Noon),
          day \o <<"T", "2", "4", ":", "0", "0", ":", "0", "0", "Z">>,
          day \o <<"T">> \o FormatClock(Noon) \o <<"+", "0", "2", "0", "0">>,
          day \o <<"T">> \o FormatClock(Noon) \o <<"Z", "x">> }

Stamps == WellFormedStamps \cup MalformedStamps

\* The bounds of the enumerated filter sets: a window from midnight to noon
\* of the second day.
WindowStart == Instant(StampBase + 1, 0, 0)

WindowEnd == Instant(StampBase + 1, Noon, 0)

FilterSets ==
    [CreatedAfter   : {Nil, Ptr(WindowStart)},
     CreatedBefore  : {Nil, Ptr(WindowEnd)},
     ModifiedAfter  : {Nil, Ptr(WindowStart)},
     ModifiedBefore : {Nil, Ptr(WindowEnd)}]

InitDates ==
    /\ \E f \in FilterSets, c \in Stamps, m \in Stamps :
         dateCall = [pc |-> "call", f |-> f, createdStr |-> c,
                     modifiedStr |-> m, result |-> FALSE]
    /\ relCall = [pc |-> "idle"]
    /\ IdleCodec
    /\ IdleResolver
    /\ IdleUpload
    /\ IdleCmd

\* One call of MatchesDates.
MatchDates ==
    /\ dateCall.pc = "call"
    /\ dateCall' =
         [dateCall EXCEPT
            !.pc = "done",
            !.result = MatchesDates(dateCall.f, dateCall.createdStr,
                                    dateCall.modifiedStr)]
    /\ UNCHANGED <<relCall, codecVars, resolverVars, uploadVars, cmdVars>>

NextDates == MatchDates

SpecDates == InitDates /\ [][NextDates]_vars

(***************************************************************************)
(* The claims on MatchesDates.  A timestamp is read here by the table of   *)
(* the enumerated timestamps, not by the parser.                           *)
(***************************************************************************)
IsWellFormed(s) == \E k \in StampKinds : \E t \in StampInstants(k) : Stamp(k, t) = s

InstantOf(s) ==
    CHOOSE t \in UNION {StampInstants(k) : k \in StampKinds} :
        \E k \in StampKinds : t \in StampInstants(k) /\ Stamp(k, t) = s

\* t at or after u, as instants on the time line.
NotEarlier(t, u) ==
    \/ t.day > u.day
    \/ t.day = u.day /\ t.sec > u.sec
    \/ t.day = u.day /\ t.sec = u.sec /\ t.nsec >= u.nsec

FieldActive(after, before) == after.set \/ before.set

FieldHolds(after, before, s) ==
    /\ IsWellFormed(s)
    /\ after.set => NotEarlier(InstantOf(s), after.t)
    /\ before.set => NotEarlier(before.t, InstantOf(s))

\* C6: MatchesDates fails closed.  Whenever a bound of a field (created or
\* modified) is active and that field's timestamp is empty or cannot be
\* parsed, the result is false, whatever the other field holds.
C6_FailsClosed ==
    dateCall.pc = "done" =>
        LET f == dateCall.f
        IN  /\ (FieldActive(f.CreatedAfter, f.CreatedBefore)
                /\ ~IsWellFormed(dateCall.createdStr)) => dateCall.result = FALSE
            /\ (FieldActive(f.ModifiedAfter, f.ModifiedBefore)
                /\ ~IsWellFormed(dateCall.modifiedStr)) => dateCall.result = FALSE

\* A call ended where only the modified field has a bound, its timestamp is
\* empty and the created field holds a timestamp that parses.
C6_Witness ==
    /\ dateCall.pc = "done"
    /\ ~FieldActive(dateCall.f.CreatedAfter, dateCall.f.CreatedBefore)
    /\ dateCall.f.ModifiedBefore.set
    /\ dateCall.modifiedStr = <<>>
    /\ IsWellFormed(dateCall.createdStr)
    /\ dateCall.result = FALSE

\* C7: MatchesDates returns true exactly when each field that has an active
\* bound has a timestamp that parses, is not before the After bound (if set)
\* and not after the Before bound (if set).  With no active bound every
\* record matches, empty timestamps included; with both fields bounded both
\* must hold.
C7_MatchesExactly ==
    dateCall.pc = "done" =>
        LET f == dateCall.f
        IN  dateCall.result =
              (/\ FieldActive(f.CreatedAfter, f.CreatedBefore) =>
                    FieldHolds(f.CreatedAfter, f.CreatedBefore, dateCall.createdStr)
               /\ FieldActive(f.ModifiedAfter, f.ModifiedBefore) =>
                    FieldHolds(f.ModifiedAfter, f.ModifiedBefore, dateCall.modifiedStr))

\* A call ended with a match where both fields are bounded on both sides and
\* the created timestamp lies exactly on its After bound, the modified one
\* exactly on its Before bound.
C7_Witness ==
    /\ dateCall.pc = "done"
    /\ dateCall.f.CreatedAfter.set /\ dateCall.f.CreatedBefore.set
    /\ dateCall.f.ModifiedAfter.set /\ dateCall.f.ModifiedBefore.set
    /\ IsWellFormed(dateCall.createdStr)
    /\ IsWellFormed(dateCall.modifiedStr)
    /\ InstantOf(dateCall.createdStr) = WindowStart
    /\ InstantOf(dateCall.modifiedStr) = WindowEnd
    /\ dateCall.result = TRUE

\* Calls ended that the second half of C7 speaks of: no bound at all and two
\* empty timestamps, matched.
C7_WitnessNoFilter ==
    /\ dateCall.pc = "done"
    /\ dateCall.f = [CreatedAfter |-> Nil, CreatedBefore |-> Nil,
                     ModifiedAfter |-> Nil, ModifiedBefore |-> Nil]
    /\ dateCall.createdStr = <<>>
    /\ dateCall.modifiedStr = <<>>
    /\ dateCall.result = TRUE

(***************************************************************************)
(* ParseRelativeTime.  Go's int has 64 bits here; a value of that size is  *)
(* kept as a sign and its decimal digits, least significant first.         *)
(***************************************************************************)
RECURSIVE TrimZeros(_)
TrimZeros(a) ==
    IF Len(a) > 1 /\ a[Len(a)] = 0
    THEN TrimZeros(SubSeq(a, 1, Len(a) - 1))
    ELSE a

\* The magnitude a string of decimal digits spells.
Mag(ds) == TrimZeros([i \in 1..Len(ds) |-> DigitVal(ds[Len(ds) + 1 - i])])

\* -1, 0 or 1 as a is less than, equal to or greater than b.
CmpMag(a, b) ==
    IF Len(a) # Len(b) THEN (IF Len(a) < Len(b) THEN -1 ELSE 1)
    ELSE LET diff == {i \in 1..Len(a) : a[i] # b[i]}
         IN  IF diff = {} THEN 0
             ELSE LET k == CHOOSE i \in diff : \A j \in diff : j <= i
                  IN  IF a[k] < b[k] THEN -1 ELSE 1

RECURSIVE MulSmall(_, _, _)
MulSmall(a, k, carry) ==
    IF a = <<>>
    THEN IF carry = 0 THEN <<>>
         ELSE <<carry % 10>> \o MulSmall(<<>>, k, carry \div 10)
    ELSE LET p == Head(a) * k + carry
         IN  <<p % 10>> \o MulSmall(Tail(a), k, p \div 10)

\* a - b - borrow, for a >= b.
RECURSIVE SubMag(_, _, _)
SubMag(a, b, borrow) ==
    IF a = <<>> THEN <<>>
    ELSE LET bd == IF b = <<>> THEN 0 ELSE Head(b)
             x  == Head(a) - bd - borrow
         IN  <<x % 10>>
             \o SubMag(Tail(a), IF b = <<>> THEN <<>> ELSE Tail(b),
                       IF x < 0 THEN 1 ELSE 0)

Two63 ==
    Mag(<<"9","2","2","3","3","7","2","0","3","6","8","5","4","7","7","5",
          "8","0","8">>)

Two64 ==
    Mag(<<"1","8","4","4","6","7","4","4","0","7","3","7","0","9","5","5",
          "1","6","1","6">>)

MaxInt64 == TrimZeros(SubMag(Two63, <<1>>, 0))

GoInt(neg, mag) == [neg |-> neg /\ mag # <<0>>, mag |-> mag]

RECURSIVE ModMag(_, _)
ModMag(a, m) ==
    IF CmpMag(a, m) < 0 THEN a ELSE ModMag(TrimZeros(SubMag(a, m, 0)), m)

\* The 64-bit two's complement value an exact result wraps to.
Wrap64(x) ==
    LET r == ModMag(x.mag, Two64)
        u == IF x.neg /\ r # <<0>> THEN TrimZeros(SubMag(Two64, r, 0)) ELSE r
    IN  IF CmpMag(u, Two63) >= 0
        THEN GoInt(TRUE, TrimZeros(SubMag(Two64, u, 0)))
        ELSE GoInt(FALSE, u)

\* strconv.Atoi on a string of digits: the value, or the largest int when
\* the value is out of range (the error that comes with it is dropped by
\* the caller: n, _ := strconv.Atoi(m[1])).
Atoi(ds) ==
    IF CmpMag(Mag(ds), MaxInt64) > 0
    THEN GoInt(FALSE, MaxInt64)
    ELSE GoInt(FALSE, Mag(ds))

Negate(x) == Wrap64(GoInt(~x.neg, x.mag))

Times(x, k) == Wrap64(GoInt(x.neg, TrimZeros(MulSmall(x.mag, k, 0))))

\* The counts the model computes a date for.
InRange(x) == Len(x.mag) <= 6

ToInt(x) ==
    LET RECURSIVE Val(_)
        Val(a) == IF a = <<>> THEN 0 ELSE Head(a) + 10 * Val(Tail(a))
    IN  IF x.neg THEN 0 - Val(x.mag) ELSE Val(x.mag)

Units == {<<"d">>, <<"w">>, <<"m", "o">>, <<"y">>}

\* relativeTimeRe.FindStringSubmatch: ^(\d+)(d|w|mo|y)$
relativeTimeRe(s) ==
    LET k == DigitsLen(s)
    IN  [matched |-> k >= 1 /\ Drop(s, k) \in Units,
         n |-> SubSeq(s, 1, k),
         unit |-> Drop(s, k)]

NoArg == GoInt(FALSE, <<0>>)

\* What ParseRelativeTime returns: the error or not, and the time.  For a
\* relative expression the record also keeps the argument the code passes to
\* AddDate; the time is computed when that argument is InRange, and beyond
\* is set when it is not.
RelResult(err, arg, t) ==
    [err |-> err, arg |-> arg, beyond |-> ~InRange(arg),
     t |-> IF InRange(arg) THEN t ELSE ZeroTime]

ParseRelativeTime(s, now) ==
    LET m == relativeTimeRe(s)
        n == Atoi(m.n)
        a == CASE m.unit = <<"w">> -> Times(Negate(n), 7)
               [] OTHER -> Negate(n)
        k == IF InRange(a) THEN ToInt(a) ELSE 0
        abs == Parse(DateLayout, s)
    IN  IF m.matched
        THEN CASE m.unit = <<"d">> -> RelResult(FALSE, a, AddDate(now, 0, 0, k))
               [] m.unit = <<"w">> -> RelResult(FALSE, a, AddDate(now, 0, 0, k))
               [] m.unit = <<"m", "o">> -> RelResult(FALSE, a, AddDate(now, 0, k, 0))
               [] m.unit = <<"y">> -> RelResult(FALSE, a, AddDate(now, k, 0, 0))
        ELSE IF ~abs.err THEN RelResult(FALSE, NoArg, abs.t)
        ELSE RelResult(TRUE, NoArg, ZeroTime)

(***************************************************************************)
(* The expressions ParseRelativeTime is called on.                         *)
(***************************************************************************)
CountDigits == {"0", "1", "9"}

Counts == UNION {[1..k -> CountDigits] : k \in 1..MaxRelDigits}

Suffixes ==
    Units \cup {<<>>, <<"x">>, <<"m">>, <<"D">>, <<"d", "d">>, <<"d", " ">>}

\* ceil(2^64 / 7): a count that fits an int and whose product by 7 does not.
WrappingWeeks ==
    <<"2","6","3","5","2","4","9","1","5","3","3","8","7","0","7","8",
      "8","0","3">>

\* A count that does not fit an int.
TwentyNines == [i \in 1..20 |-> "9"]

RelExprs ==
    {c \o u : c \in Counts, u \in Suffixes}
    \cup {FormatDate(d) : d \in StampDays}
    \cup { <<>>,
           <<"a", "b", "c">>,
           <<"3", "x">>,
           <<"3", "d">>,
           <<"1", "4", "d">>,
           <<"-", "3", "d">>,
           <<" ", "3", "d">>,
           <<"d">>,
           <<"2", "0", "2", "6", "-", "0", "2", "-", "3", "0">>,
           <<"2", "0", "2", "6", "-", "3", "-", "1">>,
           FormatDate(StampBase) \o <<"T">> \o FormatClock(Noon) \o <<"Z">>,
           WrappingWeeks \o <<"w">>,
           WrappingWeeks \o <<"d">> }
    \cup {TwentyNines \o u : u \in Units}

\* The clock's readings: the last day of a month, a leap day, a plain day.
Clocks ==
    { Instant(DaysFromCivil(2026, 3, 31), 36000, 0),
      Instant(DaysFromCivil(2024, 2, 29), 0, 0),
      Instant(DaysFromCivil(2026, 1, 15), Noon, HalfSecond) }

InitRelative ==
    /\ \E s \in RelExprs, now \in Clocks :
         relCall = [pc |-> "call", s |-> s, now |-> now,
                    result |-> RelResult(FALSE, NoArg, ZeroTime)]
    /\ dateCall = [pc |-> "idle"]
    /\ IdleCodec
    /\ IdleResolver
    /\ IdleUpload
    /\ IdleCmd

\* One call of ParseRelativeTime.
ParseRelative ==
    /\ relCall.pc = "call"
    /\ relCall' =
         [relCall EXCEPT
            !.pc = "done",
            !.result = ParseRelativeTime(relCall.s, relCall.now)]
    /\ UNCHANGED <<dateCall, codecVars, resolverVars, uploadVars, cmdVars>>

NextRelative == ParseRelative

SpecRelative == InitRelative /\ [][NextRelative]_vars

(***************************************************************************)
(* The claim on ParseRelativeTime.                                         *)
(***************************************************************************)
\* s is digits followed by a unit; the digits.
IsRelativeExpr(s) ==
    \E i \in 1..Len(s) : AllDigits(SubSeq(s, 1, i)) /\ Drop(s, i) \in Units

CountOf(s) == SubSeq(s, 1, CHOOSE i \in 1..Len(s) :
                  AllDigits(SubSeq(s, 1, i)) /\ Drop(s, i) \in Units)

UnitOf(s) == Drop(s, Len(CountOf(s)))

\* s is YYYY-MM-DD and the day exists.
IsValidDate(s) ==
    /\ Len(s) = 10
    /\ s[5] = "-" /\ s[8] = "-"
    /\ AllDigits(SubSeq(s, 1, 4)) /\ AllDigits(SubSeq(s, 6, 7))
    /\ AllDigits(SubSeq(s, 9, 10))
    /\ NumVal(SubSeq(s, 6, 7)) \in 1..12
    /\ NumVal(SubSeq(s, 9, 10)) \in
           1..daysIn(NumVal(SubSeq(s, 6, 7)), NumVal(SubSeq(s, 1, 4)))

\* The exact number of days, months or years the expression goes back.
ExactBack(s) ==
    TrimZeros(MulSmall(Mag(CountOf(s)), IF UnitOf(s) = <<"w">> THEN 7 ELSE 1, 0))

\* now moved back by n of the unit, for an n the model computes dates for.
\* A move by months or years is fixed here only where the day of now exists
\* in the month it lands in.
MovedBack(now, unit, n, t) ==
    LET c  == CivilFromDays(now.day)
        mi == c.y * 12 + (c.m - 1) - (IF unit = <<"y">> THEN 12 * n ELSE n)
        y  == mi \div 12
        m  == (mi % 12) + 1
    IN  IF unit \in {<<"d">>, <<"w">>}
        THEN t = [now EXCEPT !.day = now.day - n]
        ELSE c.d <= daysIn(m, y) =>
                 t = [now EXCEPT !.day = DaysFromCivil(y, m, c.d)]

\* The first half of C8: ParseRelativeTime succeeds exactly on the inputs that
\* match ^(\d+)(d|w|mo|y)$ or are a valid YYYY-MM-DD date.
C8_AcceptsExactly ==
    relCall.pc = "done" =>
        (~relCall.result.err <=>
            (IsRelativeExpr(relCall.s) \/ IsValidDate(relCall.s)))

\* The second half of C8: for an accepted n<unit> the result is now minus n
\* days, 7n days, n calendar months or n calendar years.
C8_GoesBackByCount ==
    (relCall.pc = "done" /\ IsRelativeExpr(relCall.s)) =>
        LET back == ExactBack(relCall.s)
            r    == relCall.result
        IN  /\ r.arg = GoInt(TRUE, back)
            /\ InRange(GoInt(TRUE, back)) =>
                 MovedBack(relCall.now, UnitOf(relCall.s),
                           ToInt(GoInt(FALSE, back)), r.t)

\* C8: ParseRelative succeeds exactly on inputs that match ^(\d+)(d|w|mo|y)$
\* or are a valid YYYY-MM-DD date and returns a parse error for every other
\* input; for an accepted relative input n<unit> the result is now minus n
\* days, 7n days, n calendar months or n calendar years.
C8_ParseRelativeAsStated == C8_AcceptsExactly /\ C8_GoesBackByCount

\* The second half of C8 on the counts whose product by 7 fits an int.
C8_GoesBackByCountThatFits ==
    (/\ relCall.pc = "done"
     /\ IsRelativeExpr(relCall.s)
     /\ CmpMag(ExactBack(relCall.s), MaxInt64) <= 0
     /\ CmpMag(Mag(CountOf(relCall.s)), MaxInt64) <= 0) =>
        LET back == ExactBack(relCall.s)
            r    == relCall.result
        IN  /\ r.arg = GoInt(TRUE, back)
            /\ InRange(GoInt(TRUE, back)) =>
                 MovedBack(relCall.now, UnitOf(relCall.s),
                           ToInt(GoInt(FALSE, back)), r.t)

\* A call ended on the count ceil(2^64 / 7) of weeks: accepted, and the result
\* is the clock's reading 5 days back.
C8_WitnessWrappedWeeks ==
    /\ relCall.pc = "done"
    /\ relCall.s = WrappingWeeks \o <<"w">>
    /\ ~relCall.result.err
    /\ relCall.result.t = [relCall.now EXCEPT !.day = relCall.now.day - 5]

\* A call ended on "14d": the result is the clock's reading 14 days back.
C8_WitnessFortnight ==
    /\ relCall.pc = "done"
    /\ relCall.s = <<"1", "4", "d">>
    /\ ~relCall.result.err
    /\ relCall.result.t = [relCall.now EXCEPT !.day = relCall.now.day - 14]

(***************************************************************************)
(* The upload pipeline: cmd/maps.go, MapsAddCmd.Run, and the calls of the  *)
(* API client it makes.  A remote call is blocking: the step that issues   *)
(* it ends with its response.  Each call is logged with the stage of the   *)
(* pipeline it belongs to:                                                 *)
(*   1 Initiate, 2 Transfer, 3 Complete, 4 Materialize, 5 Discover,        *)
(*   6 Enrich, 7 Convert.                                                  *)
(***************************************************************************)
MaxOtherCreates == 1    \* creations by other clients during one run
ListPageSize == 20      \* Size of the ListFiles request of Discover

LastIndex(s, c) ==
    LET at == {i \in 1..Len(s) : s[i] = c}
    IN  IF at = {} THEN 0 ELSE CHOOSE i \in at : \A j \in at : j <= i

\* fmt's %d of a number that is not negative.
RECURSIVE Decimal(_)
Decimal(n) ==
    IF n < 10 THEN <<Digits[n + 1]>>
    ELSE Decimal(n \div 10) \o <<Digits[(n % 10) + 1]>>

\* uploadName: the file's name with "-<UnixMilli>" before its last extension.
UploadName(fileName, millis) ==
    LET idx == LastIndex(fileName, ".")
        ext == IF idx > 0 THEN SubSeq(fileName, idx, Len(fileName)) ELSE <<>>
        baseName == SubSeq(fileName, 1, Len(fileName) - Len(ext))
    IN  baseName \o <<"-">> \o Decimal(millis) \o ext

DisplayName(file, name) == IF name = <<>> THEN file ELSE name

AfterFirstBar(s) ==
    LET i == CHOOSE k \in 1..Len(s) : s[k] = "|" /\ \A j \in 1..(k - 1) : s[j] # "|"
    IN  SubSeq(s, i + 1, Len(s))

GroupID == <<"g", "1">>

NewUpload(file, name, millis) ==
    [pc |-> "prepare",
     database |-> P1, fileGroupID |-> GroupID, file |-> file, name |-> name,
     millis |-> millis,
     displayName |-> <<>>, uploadName |-> <<>>,
     uuid |-> <<>>, signedURL |-> <<>>,
     files |-> <<>>, fileID |-> <<>>,
     couchDbID |-> <<>>, versionID |-> <<>>, groupName |-> <<>>,
     email |-> FALSE,
     ret |-> "none", out |-> <<>>, calls |-> <<>>,
     earlier |-> <<>>]

Call(op, stage, resp, args) ==
    [op |-> op, stage |-> stage, resp |-> resp, args |-> args]

Log(r, e) == [r EXCEPT !.calls = Append(@, e)]

\* return fmt.Errorf(...): the run ends with the error of that message.
Return(r, err) == [r EXCEPT !.pc = "done", !.ret = err]

Step(r, c) == [run |-> r, cloud |-> c]

\* File type, os.ReadFile, os.Stat, the names.
StepPrepare(r, outcome) ==
    CASE outcome = "invalidType" -> Return(r, "invalid file type")
      [] outcome = "unreadable"  -> Return(r, "reading file")
      [] outcome = "noInfo"      -> Return(r, "getting file info")
      [] OTHER ->
           [r EXCEPT !.displayName = DisplayName(r.file, r.name),
                     !.uploadName = UploadName(r.file, r.millis),
                     !.out = Append(@, "Uploading"),
                     !.pc = "initiate"]

\* Step 1: client.InitiateUpload
StepInitiate(r, c, outcome) ==
    LET args == <<r.database, r.uploadName>>
        uuid == <<"u", Digits[Len(c.sessions) + 1]>>
    IN  IF outcome = "error"
        THEN Step(Return(Log(r, Call("InitiateUpload", 1, "error", args)),
                         "initiating upload"), c)
        ELSE Step([Log(r, Call("InitiateUpload", 1, "ok", args))
                     EXCEPT !.uuid = uuid, !.pc = "transfer"],
                  [c EXCEPT !.sessions =
                      Append(@, [uuid |-> uuid, fileName |-> r.uploadName,
                                 state |-> "initiated"])])

SetState(c, uuid, state) ==
    [c EXCEPT !.sessions =
        [i \in DOMAIN @ |->
            IF @[i].uuid = uuid THEN [@[i] EXCEPT !.state = state] ELSE @[i]]]

\* A slip a maintainer could make: the record is created before the upload
\* is completed.
StepTransfer_ThenMaterialize(r, c, outcome) ==
    LET args == <<r.uuid, r.uploadName, <<"0">>>>
    IN  IF outcome = "error"
        THEN Step(Return(Log(r, Call("UploadChunk", 2, "error", args)),
                         "uploading file"), c)
        ELSE Step([Log(r, Call("UploadChunk", 2, "ok", args))
                     EXCEPT !.pc = "materialize"],
                  SetState(c, r.uuid, "transferred"))

\* Step 2: client.UploadChunk, the whole file as chunk 0
StepTransfer(r, c, outcome) ==
    LET args == <<r.uuid, r.uploadName, <<"0">>>>
    IN  IF outcome = "error"
        THEN Step(Return(Log(r, Call("UploadChunk", 2, "error", args)),
                         "uploading file"), c)
        ELSE Step([Log(r, Call("UploadChunk", 2, "ok", args))
                     EXCEPT !.pc = "complete"],
                  SetState(c, r.uuid, "transferred"))

\* A slip a maintainer could make: a failed CompleteUpload is tried again.
StepComplete_TriesAgain(r, c, outcome) ==
    LET args == <<r.uuid, r.uploadName>>
        first == IF outcome = "error"
                 THEN Log(r, Call("CompleteUpload", 3, "error", args))
                 ELSE r
    IN  Step([Log(first, Call("CompleteUpload", 3, "ok", args))
                EXCEPT !.signedURL = <<"s">> \o r.uuid,
                       !.pc = "materialize"],
             SetState(c, r.uuid, "completed"))

\* Step 3: client.CompleteUpload
StepComplete(r, c, outcome) ==
    LET args == <<r.uuid, r.uploadName>>
    IN  IF outcome = "error"
        THEN Step(Return(Log(r, Call("CompleteUpload", 3, "error", args)),
                         "completing upload"), c)
        ELSE Step([Log(r, Call("CompleteUpload", 3, "ok", args))
                     EXCEPT !.signedURL = <<"s">> \o r.uuid,
                            !.pc = "materialize"],
                  SetState(c, r.uuid, "completed"))

\* Client.GetProject: ListProjects, which asks for the user's email first
\* (GetCurrentUser, unless the email is cached), then the search of the
\* project in the list.
GetProject(r, stage, lookup) ==
    LET asked == IF r.email THEN r
                 ELSE Log(r, Call("GetCurrentUser", stage,
                                  IF lookup = "emailError" THEN "error" ELSE "ok",
                                  <<>>))
    IN  IF lookup = "emailError" THEN asked
        ELSE [Log(asked, Call("ListProjects", stage,
                              CASE lookup = "listError" -> "error"
                                [] lookup = "absent" -> "absent"
                                [] OTHER -> "ok",
                              <<>>))
                EXCEPT !.email = TRUE]

Lookups == {"ok", "emailError", "listError", "absent"}

\* The records of the service that are not the fillers of a crowded page.
Created(c) == SelectSeq(c.files, LAMBDA f : f.by # "filler")

FreshFileID(c) == <<"f", Digits[Len(Created(c)) + 1]>>

\* A slip a maintainer could make: when the record cannot be created the
\* uploaded blob is deleted again.
StepMaterialize_RollsBack(r, c, lookup, outcome) ==
    LET looked == GetProject(r, 4, lookup)
        args == <<r.database, r.displayName, r.uploadName, r.signedURL,
                  r.fileGroupID>>
        id == FreshFileID(c)
        record == [id |-> id, name |-> r.displayName,
                   version |-> IF outcome = "unversioned" THEN <<>>
                               ELSE <<"v">> \o id,
                   by |-> "run", indexed |-> FALSE]
        undo(q) == Log(q, Call("DeleteUpload", 4, "ok", <<r.uuid>>))
    IN  CASE lookup # "ok" ->
               Step(Return(undo(looked), "creating file"),
                    SetState(c, r.uuid, "deleted"))
          [] lookup = "ok" /\ outcome = "error" ->
               Step(Return(undo(Log(looked, Call("CreateFile", 4, "error", args))),
                           "creating file"),
                    SetState(c, r.uuid, "deleted"))
          [] lookup = "ok" /\ outcome = "rejected" ->
               Step(Return(undo(Log(looked, Call("CreateFile", 4, "rejected", args))),
                           "file creation failed"),
                    SetState(c, r.uuid, "deleted"))
          [] OTHER ->
               Step([Log(looked, Call("CreateFile", 4, "ok", args))
                       EXCEPT !.out = Append(@, "File uploaded"),
                              !.pc = "discover"],
                    [c EXCEPT !.files = <<record>> \o @])

\* Step 4: client.CreateFile and the check of the acknowledgement's code
StepMaterialize(r, c, lookup, outcome) ==
    LET looked == GetProject(r, 4, lookup)
        args == <<r.database, r.displayName, r.uploadName, r.signedURL,
                  r.fileGroupID>>
        id == FreshFileID(c)
        record == [id |-> id, name |-> r.displayName,
                   version |-> IF outcome = "unversioned" THEN <<>>
                               ELSE <<"v">> \o id,
                   by |-> "run", indexed |-> FALSE]
    IN  CASE lookup # "ok" -> Step(Return(looked, "creating file"), c)
          [] lookup = "ok" /\ outcome = "error" ->
               Step(Return(Log(looked, Call("CreateFile", 4, "error", args)),
                           "creating file"), c)
          [] lookup = "ok" /\ outcome = "rejected" ->
               Step(Return(Log(looked, Call("CreateFile", 4, "rejected", args)),
                           "file creation failed"), c)
          [] OTHER ->
               Step([Log(looked, Call("CreateFile", 4, "ok", args))
                       EXCEPT !.out = Append(@, "File uploaded"),
                              !.pc = "discover"],
                    [c EXCEPT !.files = <<record>> \o @])

\* A file record as the list endpoint sends it: which of the fields of
\* api.File carry the name and the identifier is the service's choice.
WireFile(c, database, f) ==
    [FileName  |-> IF c.wire.name = "fileName" THEN f.name ELSE <<>>,
     Name      |-> IF c.wire.name = "name" THEN f.name ELSE <<>>,
     CouchDbID |-> IF c.wire.id = "couchDbId" THEN f.id ELSE <<>>,
     CouchID   |-> IF c.wire.id = "_id" THEN f.id ELSE <<>>,
     ID        |-> IF c.wire.id = "id" THEN database \o <<"|">> \o f.id ELSE <<>>]

Wires == [name : {"fileName", "name"}, id : {"couchDbId", "_id", "id", "none"}]

\* Client.ListFiles with Size 20, newest first; a stale answer lacks the
\* records the index has not caught up with.
ListFiles(c, database, stale) ==
    LET seen == SelectSeq(c.files, LAMBDA f : f.indexed \/ ~stale)
        page == SubSeq(seen, 1, IF Len(seen) < ListPageSize THEN Len(seen)
                                ELSE ListPageSize)
    IN  [i \in 1..Len(page) |-> WireFile(c, database, page[i])]

WireName(w) == IF w.FileName = <<>> THEN w.Name ELSE w.FileName

\* fileID: CouchDbID, else CouchID, else the part of ID after the first "|".
WireID(w) ==
    IF w.CouchDbID # <<>> THEN w.CouchDbID
    ELSE IF w.CouchID # <<>> THEN w.CouchID
    ELSE IF w.ID # <<>> /\ Contains(w.ID, "|") THEN AfterFirstBar(w.ID)
    ELSE <<>>

\* A slip a maintainer could make: with no record of the display name in the
\* page, the newest record of the page is taken.
StepDiscover_TakesNewest(r, c, outcome) ==
    LET args  == <<r.database>>
        files == ListFiles(c, r.database, outcome = "stale")
        hits  == {i \in 1..Len(files) : WireName(files[i]) = r.displayName}
        first == IF hits = {} THEN 1 ELSE CHOOSE i \in hits : \A j \in hits : i <= j
        listed == [Log(r, Call("ListFiles", 5, "ok", args)) EXCEPT !.files = files]
    IN  IF outcome = "error"
        THEN Step(Return(Log(r, Call("ListFiles", 5, "error", args)),
                         "finding uploaded file"), c)
        ELSE IF files = <<>>
        THEN Step(Return(listed, "could not find uploaded file"), c)
        ELSE Step([listed EXCEPT !.fileID = WireID(files[first]),
                                 !.pc = "enrich"], c)

\* Step 5: client.ListFiles, the scan for the display name, the identifier
StepDiscover(r, c, outcome) ==
    LET args  == <<r.database>>
        files == ListFiles(c, r.database, outcome = "stale")
        hits  == {i \in 1..Len(files) : WireName(files[i]) = r.displayName}
        first == CHOOSE i \in hits : \A j \in hits : i <= j
        listed == [Log(r, Call("ListFiles", 5, "ok", args)) EXCEPT !.files = files]
    IN  IF outcome = "error"
        THEN Step(Return(Log(r, Call("ListFiles", 5, "error", args)),
                         "finding uploaded file"), c)
        ELSE IF hits = {}
        THEN Step(Return(listed, "could not find uploaded file"), c)
        ELSE Step([listed EXCEPT !.fileID = WireID(files[first]),
                                 !.pc = "enrich"], c)

HasFile(c, id) == \E i \in 1..Len(c.files) : c.files[i].id = id

FileOf(c, id) == c.files[CHOOSE i \in 1..Len(c.files) : c.files[i].id = id]

\* A slip a maintainer could make: the failure of GetFile is returned under
\* the message of the step before.
StepEnrich_FindingMessage(r, c, outcome) ==
    LET args == <<r.database, r.fileID>>
        got  == [Log(r, Call("GetFile", 6, "ok", args))
                   EXCEPT !.couchDbID = FileOf(c, r.fileID).id,
                          !.versionID = FileOf(c, r.fileID).version]
    IN  IF outcome = "error" \/ ~HasFile(c, r.fileID)
        THEN Step(Return(Log(r, Call("GetFile", 6, "error", args)),
                         "finding uploaded file"), c)
        ELSE IF got.versionID = <<>>
        THEN Step(Return(got, "file has no versionId"), c)
        ELSE Step([got EXCEPT !.pc = "group"], c)

\* A slip a maintainer could make: the error of GetFile is not returned.
StepEnrich_IgnoreError(r, c, outcome) ==
    LET args == <<r.database, r.fileID>>
    IN  IF outcome = "error" \/ ~HasFile(c, r.fileID)
        THEN Step([Log(r, Call("GetFile", 6, "error", args))
                     EXCEPT !.pc = "group"], c)
        ELSE Step([Log(r, Call("GetFile", 6, "ok", args))
                     EXCEPT !.couchDbID = FileOf(c, r.fileID).id,
                            !.versionID = FileOf(c, r.fileID).version,
                            !.pc = "group"], c)

\* client.GetFile and the check of the versionId
StepEnrich(r, c, outcome) ==
    LET args == <<r.database, r.fileID>>
        got  == [Log(r, Call("GetFile", 6, "ok", args))
                   EXCEPT !.couchDbID = FileOf(c, r.fileID).id,
                          !.versionID = FileOf(c, r.fileID).version]
    IN  IF outcome = "error" \/ ~HasFile(c, r.fileID)
        THEN Step(Return(Log(r, Call("GetFile", 6, "error", args)),
                         "getting file details"), c)
        ELSE IF got.versionID = <<>>
        THEN Step(Return(got, "file has no versionId"), c)
        ELSE Step([got EXCEPT !.pc = "group"], c)

\* A slip a maintainer could make: the failure of GetFileGroup is returned
\* like that of GetFile.
StepGroup_AbortOnError(r, c, outcome) ==
    LET args == <<r.database, r.fileGroupID>>
    IN  IF outcome = "error"
        THEN Step(Return(Log(r, Call("GetFileGroup", 6, "error", args)),
                         "getting file details"), c)
        ELSE Step([Log(r, Call("GetFileGroup", 6, "ok", args))
                     EXCEPT !.groupName = IF outcome = "named" THEN <<"G">>
                                          ELSE <<>>,
                            !.pc = "convert"], c)

\* client.GetFileGroup: the name of the group when the call succeeds and the
\* group has one, the empty name otherwise.
StepGroup(r, c, outcome) ==
    LET args == <<r.database, r.fileGroupID>>
    IN  Step([Log(r, Call("GetFileGroup", 6,
                          IF outcome = "error" THEN "error" ELSE "ok", args))
                EXCEPT !.groupName = IF outcome = "named" THEN <<"G">> ELSE <<>>,
                       !.pc = "convert"], c)

\* Step 6 of the code: client.ConvertFileToMap
StepConvert(r, c, lookup, outcome) ==
    LET looked == GetProject(r, 7, lookup)
        args == <<r.database, r.couchDbID, r.versionID, r.displayName,
                  r.groupName>>
    IN  CASE lookup # "ok" -> Step(Return(looked, "converting to map"), c)
          [] lookup = "ok" /\ outcome = "error" ->
               Step(Return(Log(looked, Call("ConvertFileToMap", 7, "error", args)),
                           "converting to map"), c)
          [] OTHER ->
               Step([Return(Log(looked, Call("ConvertFileToMap", 7, "ok", args)),
                            "nil")
                       EXCEPT !.out = @ \o <<"queued", "File ID">>],
                    [c EXCEPT !.jobs =
                        Append(@, [fileID |-> r.couchDbID,
                                   versionId |-> r.versionID,
                                   fileName |-> r.displayName,
                                   subject |-> r.groupName])])

\* What other clients create while the run is under way: one record of the
\* same display name, or a page full of records of other names.
OtherFiles(c, kind, displayName) ==
    IF kind = "same"
    THEN <<[id |-> FreshFileID(c), name |-> displayName,
            version |-> <<"v">> \o FreshFileID(c),
            by |-> "other", indexed |-> TRUE]>>
    ELSE [k \in 1..ListPageSize |->
            [id |-> <<"x", Digits[c.others + 1]>> \o Pad(k, 2),
             name |-> <<"o">> \o Pad(k, 2),
             version |-> <<"v">>,
             by |-> "filler", indexed |-> TRUE]]

(***************************************************************************)
(* The runs of the pipeline.                                               *)
(***************************************************************************)
PlanFile == <<"p", "l", "a", "n", ".", "v", "2", ".", "p", "d", "f">>

MapNames == {<<>>, <<"S", "i", "t", "e">>}

Millis == {42}

\* A record of the same display name, created before the run.
OldFile(displayName) ==
    [id |-> <<"f", "0">>, name |-> displayName, version |-> <<"v", "f", "0">>,
     by |-> "old", indexed |-> TRUE]

InitUpload ==
    /\ \E name \in MapNames, ms \in Millis, w \in Wires, old \in BOOLEAN :
         /\ upload = NewUpload(PlanFile, name, ms)
         /\ cloud = [sessions |-> <<>>,
                     files |-> IF old THEN <<OldFile(DisplayName(PlanFile, name))>>
                               ELSE <<>>,
                     jobs |-> <<>>, wire |-> w, others |-> 0]
    /\ IdleCodec
    /\ IdleResolver
    /\ IdleDates
    /\ IdleCmd

Others == <<codecVars, resolverVars, dateVars, cmdVars>>

Prepare ==
    /\ upload.pc = "prepare"
    /\ \E outcome \in {"ok", "invalidType", "unreadable", "noInfo"} :
         upload' = StepPrepare(upload, outcome)
    /\ UNCHANGED <<cloud, Others>>

Initiate ==
    /\ upload.pc = "initiate"
    /\ \E outcome \in {"ok", "error"} :
         LET s == StepInitiate(upload, cloud, outcome)
         IN  upload' = s.run /\ cloud' = s.cloud
    /\ UNCHANGED Others

Transfer ==
    /\ upload.pc = "transfer"
    /\ \E outcome \in {"ok", "error"} :
         LET s == StepTransfer(upload, cloud, outcome)
         IN  upload' = s.run /\ cloud' = s.cloud
    /\ UNCHANGED Others

Complete ==
    /\ upload.pc = "complete"
    /\ \E outcome \in {"ok", "error"} :
         LET s == StepComplete(upload, cloud, outcome)
         IN  upload' = s.run /\ cloud' = s.cloud
    /\ UNCHANGED Others

Materialize ==
    /\ upload.pc = "materialize"
    /\ \E lookup \in Lookups, outcome \in {"ok", "unversioned", "rejected", "error"} :
         /\ lookup = "emailError" => ~upload.email
         /\ LET s == StepMaterialize(upload, cloud, lookup, outcome)
            IN  upload' = s.run /\ cloud' = s.cloud
    /\ UNCHANGED Others

Discover ==
    /\ upload.pc = "discover"
    /\ \E outcome \in {"fresh", "stale", "error"} :
         LET s == StepDiscover(upload, cloud, outcome)
         IN  upload' = s.run /\ cloud' = s.cloud
    /\ UNCHANGED Others

Enrich ==
    /\ upload.pc = "enrich"
    /\ \E outcome \in {"ok", "error"} :
         LET s == StepEnrich(upload, cloud, outcome)
         IN  upload' = s.run /\ cloud' = s.cloud
    /\ UNCHANGED Others

LookupGroup ==
    /\ upload.pc = "group"
    /\ \E outcome \in {"named", "unnamed", "error"} :
         LET s == StepGroup(upload, cloud, outcome)
         IN  upload' = s.run /\ cloud' = s.cloud
    /\ UNCHANGED Others

Convert ==
    /\ upload.pc = "convert"
    /\ \E lookup \in Lookups, outcome \in {"ok", "error"} :
         /\ lookup = "emailError" => ~upload.email
         /\ LET s == StepConvert(upload, cloud, lookup, outcome)
            IN  upload' = s.run /\ cloud' = s.cloud
    /\ UNCHANGED Others

OthersCreate ==
    /\ upload.pc \notin {"idle", "prepare", "done"}
    /\ cloud.others < MaxOtherCreates
    /\ \E kind \in {"same", "crowd"} :
         cloud' = [cloud EXCEPT
                     !.files = OtherFiles(cloud, kind, upload.displayName) \o @,
                     !.others = @ + 1]
    /\ UNCHANGED <<upload, Others>>

NextUpload ==
    \/ Prepare
    \/ Initiate
    \/ Transfer
    \/ Complete
    \/ Materialize
    \/ Discover
    \/ Enrich
    \/ LookupGroup
    \/ Convert
    \/ OthersCreate

SpecUpload == InitUpload /\ [][NextUpload]_vars

(***************************************************************************)
(* The claims on the order of the stages and on their failures.            *)
(***************************************************************************)
StageOps ==
    <<"InitiateUpload", "UploadChunk", "CompleteUpload", "CreateFile",
      "ListFiles", "GetFile", "ConvertFileToMap">>

\* The calls of the seven stages' own operations, in the order of issue.
StageCalls == SelectSeq(upload.calls, LAMBDA e : e.op \in Range(StageOps))

\* C9: in every run of the pipeline the remote calls are issued in the fixed
\* order Initiate, Transfer, Complete, Materialize, Discover, Enrich,
\* Convert, with no overlap: a stage's call is issued only after the call of
\* the stage before it has returned successfully.
C9_StagesInOrder ==
    upload.pc # "idle" =>
        /\ Len(StageCalls) <= Len(StageOps)
        /\ \A i \in 1..Len(StageCalls) :
             /\ StageCalls[i].op = StageOps[i]
             /\ i < Len(StageCalls) => StageCalls[i].resp = "ok"
        /\ \A i \in 1..Len(upload.calls) : \A j \in i..Len(upload.calls) :
             upload.calls[i].stage <= upload.calls[j].stage
        /\ upload.pc # "done" =>
             \A i \in 1..Len(StageCalls) : StageCalls[i].resp = "ok"

\* A run that ended in success: all seven calls were issued.
C9_Witness ==
    /\ upload.pc = "done"
    /\ upload.ret = "nil"
    /\ Len(StageCalls) = 7
    /\ cloud.others > 0

\* Stage k failed: a call of the stage returned an error, or the stage's own
\* check of a response that arrived failed (the project is not listed, the
\* acknowledgement's code is not 200, no listed record has the display name,
\* the fetched record has no version).  The group lookup of stage 6 is not
\* the stage's operation: its failure is not a failure of the stage.
StageFailed(k) ==
    \/ \E i \in 1..Len(upload.calls) :
         LET e == upload.calls[i]
         IN  /\ e.stage = k
             /\ e.op # "GetFileGroup"
             /\ e.resp \in {"error", "absent", "rejected"}
    \/ /\ k = 5
       /\ \E i \in 1..Len(upload.calls) :
            upload.calls[i].op = "ListFiles" /\ upload.calls[i].resp = "ok"
       /\ \A i \in 1..Len(upload.files) :
            WireName(upload.files[i]) # upload.displayName
    \/ /\ k = 6
       /\ \E i \in 1..Len(upload.calls) :
            upload.calls[i].op = "GetFile" /\ upload.calls[i].resp = "ok"
       /\ upload.versionID = <<>>

\* C10: if any of stages 1 to 6 fails, the pipeline returns an error and
\* issues no call of any later stage; in particular no conversion job is
\* submitted.
C10_FailureAborts ==
    upload.pc # "idle" =>
        \A k \in 1..6 :
            StageFailed(k) =>
                /\ upload.pc = "done"
                /\ upload.ret \notin {"nil", "none"}
                /\ \A i \in 1..Len(upload.calls) : upload.calls[i].stage <= k
                /\ cloud.jobs = <<>>

\* A run ended by the failure of stage 6 (the record could not be fetched)
\* after five stages that succeeded.
C10_Witness ==
    /\ upload.pc = "done"
    /\ StageFailed(6)
    /\ Len(StageCalls) = 6
    /\ upload.ret = "getting file details"

\* The call of op was issued and answered without an error.
Answered(op) ==
    \E i \in 1..Len(upload.calls) :
        upload.calls[i].op = op /\ upload.calls[i].resp = "ok"

\* The listing arrived and no record of its page has the display name.
NoNameMatch ==
    /\ Answered("ListFiles")
    /\ \A i \in 1..Len(upload.files) :
         WireName(upload.files[i]) # upload.displayName

\* C11: if Materialize succeeds but the scan of Discover finds no record in
\* the listed page whose display name equals the name used in Materialize,
\* the pipeline returns the error of stage 5's scan, an error no other
\* failure returns, and no conversion job is submitted.
C11_NotFoundIsStage5 ==
    upload.pc # "idle" =>
        /\ (Answered("CreateFile") /\ NoNameMatch) =>
              /\ upload.pc = "done"
              /\ upload.ret = "could not find uploaded file"
              /\ cloud.jobs = <<>>
              /\ \A i \in 1..Len(upload.calls) : upload.calls[i].stage <= 5
        /\ upload.ret = "could not find uploaded file" =>
              (Answered("CreateFile") /\ NoNameMatch)

\* A run ended by the scan of a full page that lacks the record just
\* created: other clients' records have pushed it off the page.
C11_Witness ==
    /\ upload.pc = "done"
    /\ Answered("CreateFile")
    /\ NoNameMatch
    /\ Len(upload.files) = ListPageSize
    /\ \E i \in 1..Len(cloud.files) : cloud.files[i].by = "run"
    /\ upload.ret = "could not find uploaded file"

(***************************************************************************)
(* The command run again: after a run that succeeded, a new process runs   *)
(* the pipeline on the same arguments, against the service as the first    *)
(* run left it.  The new run remembers, for the comparison only, the File  *)
(* ID the earlier run printed.                                             *)
(***************************************************************************)
RunAgain ==
    /\ upload.pc = "done"
    /\ upload.ret = "nil"
    /\ upload.earlier = <<>>
    /\ upload' = [NewUpload(upload.file, upload.name, upload.millis + 1)
                    EXCEPT !.earlier = <<upload.couchDbID>>]
    /\ UNCHANGED <<cloud, Others>>

NextUploadTwice == NextUpload \/ RunAgain

SpecUploadTwice == InitUpload /\ [][NextUploadTwice]_vars

\* C12: running the pipeline twice with identical arguments, both runs
\* succeeding, produces two distinct identifiers: the File ID the second run
\* reports differs from the one the first run reported.
C12_SecondRunDistinct ==
    (upload.pc = "done" /\ upload.ret = "nil" /\ upload.earlier # <<>>) =>
        upload.couchDbID # upload.earlier[1]

\* Two runs that succeeded and reported two identifiers, each the record
\* its own run created.
C12_WitnessDistinct ==
    /\ upload.pc = "done" /\ upload.ret = "nil" /\ upload.earlier # <<>>
    /\ upload.couchDbID # upload.earlier[1]
    /\ Len(cloud.jobs) = 2

(***************************************************************************)
(* The errors Run returns: each is fmt.Errorf of one message, followed,    *)
(* where a call failed, by the text of the cause.  The table gives, for    *)
(* each message, the stage whose return statement carries it (0 for the    *)
(* checks before stage 1) and whether its text says anything about the     *)
(* uploaded blob.                                                          *)
(***************************************************************************)
ErrorTexts ==
    { [msg |-> "invalid file type",            stage |-> 0, blob |-> FALSE],
      [msg |-> "reading file",                 stage |-> 0, blob |-> FALSE],
      [msg |-> "getting file info",            stage |-> 0, blob |-> FALSE],
      [msg |-> "initiating upload",            stage |-> 1, blob |-> FALSE],
      [msg |-> "uploading file",               stage |-> 2, blob |-> FALSE],
      [msg |-> "completing upload",            stage |-> 3, blob |-> FALSE],
      [msg |-> "creating file",                stage |-> 4, blob |-> FALSE],
      [msg |-> "file creation failed",         stage |-> 4, blob |-> FALSE],
      [msg |-> "finding uploaded file",        stage |-> 5, blob |-> FALSE],
      [msg |-> "could not find uploaded file", stage |-> 5, blob |-> FALSE],
      [msg |-> "getting file details",         stage |-> 6, blob |-> FALSE],
      [msg |-> "file has no versionId",        stage |-> 6, blob |-> FALSE],
      [msg |-> "converting to map",            stage |-> 7, blob |-> FALSE] }

IsError(ret) == \E e \in ErrorTexts : e.msg = ret

ErrorText(ret) == CHOOSE e \in ErrorTexts : e.msg = ret

\* The blob of the run is held by the service: its session was completed.
BlobLeft ==
    \E i \in 1..Len(cloud.sessions) :
        /\ cloud.sessions[i].uuid = upload.uuid
        /\ cloud.sessions[i].state = "completed"

\* C13 without its last clause: every error returned for a failed stage
\* identifies which of the seven stages failed; the message of a failed
\* stage is a message of that stage and of no other.
C13_ErrorNamesStage ==
    upload.pc # "idle" =>
        \A k \in 1..7 :
            StageFailed(k) =>
                /\ upload.pc = "done"
                /\ IsError(upload.ret)
                /\ ErrorText(upload.ret).stage = k

\* C13: every error returned by the pipeline identifies which of the seven
\* stages failed and whether a blob was left orphaned upstream: failures of
\* different stages yield distinguishable errors, and a failure at stage 4,
\* 5 or 6 is reported as having left an orphaned blob.
C13_ErrorNamesStageAndOrphan ==
    /\ C13_ErrorNamesStage
    /\ upload.pc # "idle" =>
         \A k \in {4, 5, 6} :
            (StageFailed(k) /\ BlobLeft) => ErrorText(upload.ret).blob

\* A run ended by the failure of stage 4 with its blob at the service.
C13_WitnessOrphan ==
    /\ upload.pc = "done"
    /\ StageFailed(4)
    /\ BlobLeft
    /\ upload.ret = "file creation failed"

(***************************************************************************)
(* cmd/tickets.go: TicketsGetCmd.Run (cmd/audits.go: AuditsGetCmd.Run is   *)
(* the same statements on audits).                                         *)
(***************************************************************************)
NoDoc == [project |-> EmptyString, CouchDbID |-> EmptyString]

\* The command about to run: database and ticketID start as the arguments.
NewGet(TicketID, Database, JSON) ==
    [pc |-> "begin",
     TicketID |-> TicketID,
     Database |-> Database,
     JSON |-> JSON,
     database |-> Database,
     ticketID |-> TicketID,
     doc |-> NoDoc,                     \* the document fetched
     ret |-> "none",
     calls |-> <<>>,                    \* the remote calls of Run itself
     faults |-> <<>>]                   \* those that failed in transport

\* tickets.go:310
isHumanID(TicketID) == Len(TicketID) <= 6

\* tickets.go:307-312: an argument of at most 6 bytes goes to
\* findTicketByHumanID, any other is taken for the document ID as it is.
StepGetBegin(c) ==
    IF isHumanID(c.TicketID)
        THEN [c EXCEPT !.pc = "resolve"]
        ELSE [c EXCEPT !.pc = "fetch"]

\* tickets.go:319-324: the result of findTicketByHumanID.
StepGetResolved(c, r) ==
    IF r.ret.err # "nil"
        THEN [c EXCEPT !.ret = r.ret.err, !.pc = "done"]
        ELSE [c EXCEPT !.database = r.ret.project,
                       !.ticketID = r.ret.id,
                       !.pc = "fetch"]

\* tickets.go:326-404: GetDocument or GetTicket on (database, ticketID); on
\* success the ticket is printed, with the project name asked for and its
\* failure ignored.
StepGetFetch(c, remote, outcome) ==
    LET op == IF c.JSON THEN "GetDocument" ELSE "GetTicket"
        call == [op |-> op, project |-> c.database, id |-> c.ticketID]
        held == TicketExists(remote, c.database, c.ticketID)
        c1 == [c EXCEPT !.calls = @ \o <<call>>,
                        !.faults = IF outcome = "error" /\ held
                                       THEN @ \o <<"get">> ELSE @]
    IN  IF outcome = "error" \/ ~held
            THEN [c1 EXCEPT !.ret = "get", !.pc = "done"]
        ELSE IF c.JSON
            THEN [c1 EXCEPT !.doc = [project |-> c.database, CouchDbID |-> c.ticketID],
                            !.ret = "nil", !.pc = "done"]
        ELSE [c1 EXCEPT !.doc = [project |-> c.database, CouchDbID |-> c.ticketID],
                        !.calls = @ \o <<[op |-> "GetProject", project |-> c.database,
                                          id |-> EmptyString]>>,
                        !.ret = "nil", !.pc = "done"]

GetBegin ==
    /\ cmd.pc = "begin"
    /\ cmd' = StepGetBegin(cmd)
    /\ run' = IF isHumanID(cmd.TicketID)
                  THEN NewRun(cmd.TicketID, cmd.Database) ELSE run
    /\ UNCHANGED <<listing, store, twin, codecVars, dateVars, uploadVars>>

GetResolved ==
    /\ cmd.pc = "resolve"
    /\ run.pc = "done"
    /\ cmd' = StepGetResolved(cmd, run)
    /\ UNCHANGED <<resolverVars, codecVars, dateVars, uploadVars>>

GetFetch ==
    /\ cmd.pc = "fetch"
    /\ \E outcome \in {"ok", "error"} :
         cmd' = StepGetFetch(cmd, store, outcome)
    /\ UNCHANGED <<resolverVars, codecVars, dateVars, uploadVars>>

\* The arguments: the human ID of T1 and T1 in full, with and without -p
\* and -j.  The service holds at most MaxTickets tickets.
GetIDs == {humanID(T1), T1}

GetStores == {s \in Stores : Len(s) <= MaxTickets}

InitGet ==
    /\ listing \in Listings
    /\ store \in GetStores
    /\ run = [pc |-> "idle"]
    /\ twin = [pc |-> "idle"]
    /\ \E id \in GetIDs, d \in Scopes, j \in BOOLEAN : cmd = NewGet(id, d, j)
    /\ IdleCodec
    /\ IdleDates
    /\ IdleUpload

NextGet ==
    \/ GetBegin
    \/ Start
    \/ ListProjects
    \/ Search
    \/ Scan
    \/ Probe
    \/ GetResolved
    \/ GetFetch

SpecGet == InitGet /\ [][NextGet]_vars

\* ---- C14 ------------------------------------------------------------------
\* The tickets the user can reach whose identifier, in full or encoded, is
\* the argument.
Named(arg) ==
    {i \in 1..Len(store) :
        /\ store[i].project \in Range(CandidateProjects(listing))
        /\ \/ store[i].CouchDbID = arg
           \/ humanID(store[i].CouchDbID) = ToUpper(arg)}

NoFaults == cmd.faults = <<>> /\ (run.pc # "idle" => run.faults = <<>>)

GetsTheNamed ==
    \A i \in Named(cmd.TicketID) :
        Cardinality(Named(cmd.TicketID)) = 1 =>
            /\ cmd.ret = "nil"
            /\ cmd.database = store[i].project
            /\ cmd.doc = [project |-> store[i].project,
                          CouchDbID |-> store[i].CouchDbID]

\* C14: get by human ID and get by full identifier are equivalent: with no
\* project flag both locate the owning project and fetch the same record.
C14_GetEquivalent ==
    (cmd.pc = "done" /\ cmd.Database = EmptyString /\ NoFaults) => GetsTheNamed

\* The half that holds: get by human ID, no project flag.
C14_GetByHumanID ==
    (cmd.pc = "done" /\ cmd.Database = EmptyString /\ NoFaults
        /\ isHumanID(cmd.TicketID)) => GetsTheNamed

\* A get by human ID that located P2 and fetched T1 there.
C14_WitnessHumanID ==
    /\ cmd.pc = "done"
    /\ cmd.Database = EmptyString
    /\ cmd.TicketID = humanID(T1)
    /\ cmd.ret = "nil"
    /\ cmd.doc = [project |-> P2, CouchDbID |-> T1]

\* A get by full identifier of a ticket held by P2 alone, no project flag.
C14_WitnessFullID ==
    /\ cmd.pc = "done"
    /\ cmd.Database = EmptyString
    /\ cmd.TicketID = T1
    /\ Cardinality(Named(T1)) = 1
    /\ NoFaults
    /\ cmd.ret = "get"

(***************************************************************************)
(* Ticket status: Client.UpdateTicketFields ("tickets update") and         *)
(* Client.UpdateTicket ("tickets assign", "tickets open", "tickets         *)
(* close").  Both GET the securedata document, change it and PUT it back.  *)
(* The document is kept in store; cmd holds the last command run.          *)
(***************************************************************************)
\* participants.responsible: absent, a Person object, or a bare string.
NoResponsible == [kind |-> "absent", email |-> ""]
Person(email) == [kind |-> "Person", email |-> email]
BareString(email) == [kind |-> "string", email |-> email]

\* The operation record UpdateTicketFields appends (the last of the array).
NoOperation == [changedProperties |-> <<>>, oldValues |-> <<>>, newValues |-> <<>>]

\* A ticket document: state is state.state ("" when absent), the field
\* Ticket.State.State decodes; status is a top-level "status" key ("" when
\* absent), which no struct of the client decodes.
TicketDoc(project, id, state, responsible) ==
    [project |-> project, CouchDbID |-> id, withID |-> TRUE,
     state |-> state,
     status |-> "",
     participants |-> responsible.kind # "absent",
     responsible |-> responsible,
     operation |-> NoOperation]

\* part_000:3862-3934: the responsible part of UpdateTicketFields, on the
\* decoded document.
UpdateTicketFields(doc, Responsible, ClearResponsible) ==
    LET oldResponsible == IF doc.participants /\ doc.responsible.kind = "Person"
                              THEN doc.responsible.email ELSE ""
        oldStatus == doc.state
        newResponsible == IF ClearResponsible THEN "" ELSE Responsible
        newStatus == IF ClearResponsible THEN "created" ELSE "started"
        d1 == IF ClearResponsible
                  THEN [doc EXCEPT !.responsible = NoResponsible]
                  ELSE [doc EXCEPT !.participants = TRUE,
                                   !.responsible = Person(Responsible)]
        changed == newStatus # "" /\ newStatus # oldStatus
        d2 == IF changed THEN [d1 EXCEPT !.state = newStatus] ELSE d1
    IN  [d2 EXCEPT !.operation =
            [changedProperties |-> (IF changed THEN <<"status">> ELSE <<>>)
                                      \o <<"responsible">>,
             oldValues |-> (IF changed THEN <<oldStatus>> ELSE <<>>)
                              \o <<oldResponsible>>,
             newValues |-> (IF changed THEN <<newStatus>> ELSE <<>>)
                              \o <<newResponsible>>]]

\* part_000:2697-2740: UpdateTicket on the decoded document; "" stands for
\* an option that is nil.
UpdateTicket(doc, Status, Responsible) ==
    LET d1 == IF Status # "" THEN [doc EXCEPT !.status = Status] ELSE doc
    IN  IF Responsible # ""
            THEN [d1 EXCEPT !.participants = TRUE,
                            !.responsible = BareString(Responsible)]
            ELSE d1

\* The document (database, ticketID) names, 0 when the service has none.
DocIndex(remote, database, ticketID) ==
    IF TicketExists(remote, database, ticketID)
        THEN CHOOSE i \in 1..Len(remote) :
                 remote[i].project = database /\ remote[i].CouchDbID = ticketID
        ELSE 0

\* One command run to its end: what it returned, the calls it made and the
\* documents of the service after it.
Ran(op, args, ret, calls, remote) ==
    [cmd |-> [pc |-> "done", op |-> op, args |-> args, ret |-> ret, calls |-> calls],
     store |-> remote]

StatusArgs(Database, TicketID, Responsible, ClearResponsible) ==
    [Database |-> Database, TicketID |-> TicketID,
     Responsible |-> Responsible, ClearResponsible |-> ClearResponsible]

\* tickets.go:533-637 with the title, description, due date, complete and
\* comment flags not given.
TicketsUpdate(remote, a, outcome) ==
    LET i == DocIndex(remote, a.Database, a.TicketID)
    IN  IF a.Responsible = "" /\ ~a.ClearResponsible
            THEN \* no update asked for: the current values are shown
                 IF outcome = "getError" \/ i = 0
                     THEN Ran("update", a, "getting ticket", <<"GetTicket">>, remote)
                     ELSE Ran("update", a, "nil", <<"GetTicket">>, remote)
        ELSE IF outcome = "getError" \/ i = 0
            THEN Ran("update", a, "updating ticket", <<"GetDocument">>, remote)
        ELSE IF outcome = "emailError"
            THEN Ran("update", a, "updating ticket",
                     <<"GetDocument", "GetCurrentUser">>, remote)
        ELSE IF outcome = "putError"
            THEN Ran("update", a, "updating ticket",
                     <<"GetDocument", "GetCurrentUser", "PUT">>, remote)
        ELSE Ran("update", a, "nil", <<"GetDocument", "GetCurrentUser", "PUT">>,
                 [remote EXCEPT ![i] =
                     UpdateTicketFields(@, a.Responsible, a.ClearResponsible)])

\* tickets.go:416-465: assign, open and close are UpdateTicket with one
\* option set.
RunUpdateTicket(op, remote, a, Status, outcome) ==
    LET i == DocIndex(remote, a.Database, a.TicketID)
    IN  IF outcome = "getError" \/ i = 0
            THEN Ran(op, a, "fetching ticket", <<"GET">>, remote)
        ELSE IF outcome = "putError"
            THEN Ran(op, a, "put", <<"GET", "PUT">>, remote)
        ELSE Ran(op, a, "nil", <<"GET", "PUT">>,
                 [remote EXCEPT ![i] = UpdateTicket(@, Status, a.Responsible)])

TicketsAssign(remote, a, outcome) == RunUpdateTicket("assign", remote, a, "", outcome)

TicketsOpen(remote, a, outcome) == RunUpdateTicket("open", remote, a, "created", outcome)

TicketsClose(remote, a, outcome) == RunUpdateTicket("close", remote, a, "completed", outcome)

\* ---- the commands, run one after another on one ticket --------------------
Emails == {"a@x", "b@x"}

Outcomes == {"ok", "getError", "emailError", "putError"}

StatusFrame == <<listing, run, twin, codecVars, dateVars, uploadVars>>

Becomes(ran) ==
    /\ cmd' = ran.cmd
    /\ store' = ran.store
    /\ UNCHANGED StatusFrame

Update ==
    \E d \in {P1, P2}, r \in Emails \cup {""}, clr \in BOOLEAN, o \in Outcomes :
        Becomes(TicketsUpdate(store, StatusArgs(d, T1, r, clr), o))

Assign ==
    \E d \in {P1, P2}, r \in Emails, o \in Outcomes \ {"emailError"} :
        Becomes(TicketsAssign(store, StatusArgs(d, T1, r, FALSE), o))

Open ==
    \E d \in {P1, P2}, o \in Outcomes \ {"emailError"} :
        Becomes(TicketsOpen(store, StatusArgs(d, T1, "", FALSE), o))

Close ==
    \E d \in {P1, P2}, o \in Outcomes \ {"emailError"} :
        Becomes(TicketsClose(store, StatusArgs(d, T1, "", FALSE), o))

\* A ticket of P1 as the service holds it before any command: created with
\* no responsible, or started or completed with one.
InitStatus ==
    /\ listing = <<>>
    /\ run = [pc |-> "idle"]
    /\ twin = [pc |-> "idle"]
    /\ store \in {<<TicketDoc(P1, T1, "created", NoResponsible)>>,
                   <<TicketDoc(P1, T1, "started", Person("b@x"))>>,
                   <<TicketDoc(P1, T1, "completed", Person("b@x"))>>}
    /\ cmd = [pc |-> "ready"]
    /\ IdleCodec
    /\ IdleDates
    /\ IdleUpload

NextStatus == Update \/ Assign \/ Open \/ Close

SpecStatus == InitStatus /\ [][NextStatus]_vars

\* ---- C15 ------------------------------------------------------------------
\* The command that just ran changed its ticket.
Succeeded(op) == cmd.pc = "done" /\ cmd.op = op /\ cmd.ret = "nil"

\* The status of the ticket as the client decodes it (Ticket.State.State).
TicketStatus == store[1].state

AssignsResponsible == cmd.args.Responsible # "" /\ ~cmd.args.ClearResponsible

\* The transitions of "tickets update".
C15_UpdateTransitions ==
    /\ (Succeeded("update") /\ AssignsResponsible) => TicketStatus = "started"
    /\ (Succeeded("update") /\ cmd.args.ClearResponsible) => TicketStatus = "created"

\* C15: status transitions: a responsible assigned (update -r or assign)
\* sets the status to started; the responsible cleared sets it to created;
\* close sets it to completed; open sets it to created.
C15_StatusTransitions ==
    /\ C15_UpdateTransitions
    /\ Succeeded("assign") => TicketStatus = "started"
    /\ Succeeded("close") => TicketStatus = "completed"
    /\ Succeeded("open") => TicketStatus = "created"

\* "tickets update -r" moved a created ticket to started.
C15_WitnessUpdate ==
    /\ Succeeded("update")
    /\ AssignsResponsible
    /\ store[1].operation.changedProperties = <<"status", "responsible">>
    /\ store[1].operation.oldValues[1] = "created"
    /\ TicketStatus = "started"

\* "tickets close" on a started ticket.
C15_WitnessClose ==
    /\ Succeeded("close")
    /\ store[1].status = "completed"
    /\ TicketStatus = "started"

\* "tickets assign" on a created ticket.
C15_WitnessAssign ==
    /\ Succeeded("assign")
    /\ store[1].responsible = BareString("a@x")
    /\ TicketStatus = "created"

(***************************************************************************)
(* cmd/tickets.go: TicketsListCmd.Run, one project with date filters: the  *)
(* over-fetching, auto-paging loop.  Limit is a Go int, kept as GoInt.     *)
(***************************************************************************)
MaxListed == 4
MaxPages == 3
DefaultListSize == 50
MaxFetchSize == 200

RECURSIVE NatMag(_)
NatMag(n) == IF n < 10 THEN <<n>> ELSE <<n % 10>> \o NatMag(n \div 10)

FromNat(n) == GoInt(FALSE, NatMag(n))

\* x < y on ints.
LessInt(x, y) ==
    IF x.neg # y.neg THEN x.neg
    ELSE IF x.neg THEN CmpMag(x.mag, y.mag) > 0
    ELSE CmpMag(x.mag, y.mag) < 0

\* Client.ListTickets: "page" is sent when positive, "size" when positive
\* and 50 otherwise; the service answers with that page of the tickets of
\* the project, in the order asked for.
ListTickets(remote, database, Size, Page) ==
    LET size == IF LessInt(FromNat(0), Size) THEN ToInt(Size) ELSE DefaultListSize
        InProject(t) == t.project = database
        hits == SelectSeq(remote, InProject)
        from == Page * size + 1
        to == IF (Page + 1) * size < Len(hits) THEN (Page + 1) * size ELSE Len(hits)
    IN  [size |-> size, tickets |-> SubSeq(hits, from, to)]

\* tickets.go:123-135: the matching tickets of a page are appended until
\* the limit is reached.
RECURSIVE Collect(_, _, _, _)
Collect(allTickets, tickets, filters, Limit) ==
    IF tickets = <<>> THEN allTickets
    ELSE LET t == Head(tickets)
         IN  IF MatchesDates(filters, t.created, t.modified)
                 THEN IF ~LessInt(FromNat(Len(allTickets) + 1), Limit)
                          THEN Append(allTickets, t)
                          ELSE Collect(Append(allTickets, t), Tail(tickets), filters, Limit)
                 ELSE Collect(allTickets, Tail(tickets), filters, Limit)

NewList(Database, Limit, filters) ==
    [pc |-> "begin",
     Database |-> Database,
     Limit |-> Limit,
     filters |-> filters,
     fetchSize |-> FromNat(0),
     page |-> 0,
     allTickets |-> <<>>,
     ret |-> "none",
     calls |-> <<>>]                    \* the ListTickets calls: page and size
                                        \* asked for, records returned, matches
                                        \* accumulated after the page

\* tickets.go:99-103
StepListBegin(c) ==
    LET fetchSize == Times(c.Limit, 3)
    IN  [c EXCEPT !.fetchSize = IF LessInt(FromNat(MaxFetchSize), fetchSize)
                                    THEN FromNat(MaxFetchSize) ELSE fetchSize,
                  !.pc = "fetch"]

\* tickets.go:141-145: allTickets[:c.Limit] panics on a negative limit.
StepListFinish(c) ==
    IF LessInt(c.Limit, FromNat(Len(c.allTickets)))
        THEN IF c.Limit.neg
                 THEN [c EXCEPT !.ret = "panic: slice bounds out of range",
                                !.pc = "done"]
                 ELSE [c EXCEPT !.allTickets = SubSeq(@, 1, ToInt(c.Limit)),
                                !.ret = "nil", !.pc = "done"]
        ELSE [c EXCEPT !.ret = "nil", !.pc = "done"]

\* tickets.go:104-140: one turn of the loop, and what follows the loop when
\* this turn leaves it.
StepListPage(c, remote, outcome) ==
    LET answer == ListTickets(remote, c.Database, c.fetchSize, c.page)
        tickets == answer.tickets
        all == Collect(c.allTickets, tickets, c.filters, c.Limit)
        call == [page |-> c.page, size |-> answer.size,
                 returned |-> Len(tickets), matched |-> Len(all)]
        c1 == [c EXCEPT !.calls = @ \o <<call>>, !.allTickets = all]
    IN  IF outcome = "error"
            THEN [c EXCEPT !.calls = @ \o <<[call EXCEPT !.returned = 0,
                                                         !.matched = Len(c.allTickets)]>>,
                           !.ret = "list", !.pc = "done"]
        ELSE IF \/ ~LessInt(FromNat(Len(all)), c.Limit)
                \/ LessInt(FromNat(Len(tickets)), c.fetchSize)
            THEN StepListFinish(c1)
        ELSE [c1 EXCEPT !.page = @ + 1]

ListFrame == <<resolverVars, codecVars, dateVars, uploadVars>>

ListBegin ==
    /\ cmd.pc = "begin"
    /\ cmd' = StepListBegin(cmd)
    /\ UNCHANGED ListFrame

ListPage ==
    /\ cmd.pc = "fetch"
    /\ cmd.page <= MaxPages
    /\ \E outcome \in {"ok", "error"} : cmd' = StepListPage(cmd, store, outcome)
    /\ UNCHANGED ListFrame

\* ---- the arguments and the tickets of the project -------------------------
\* A limit whose triple wraps to a negative int, and one whose triple wraps
\* to 2.
WrapsNegative ==
    GoInt(FALSE, Mag(<<"3","0","7","4","4","5","7","3","4","5","6","1","8","2","5",
                       "8","6","0","3">>))

WrapsToTwo ==
    GoInt(FALSE, Mag(<<"6","1","4","8","9","1","4","6","9","1","2","3","6","5","1",
                       "7","2","0","6">>))

Limits ==
    {GoInt(TRUE, <<1>>), FromNat(0), FromNat(1), FromNat(2), FromNat(70),
     WrapsNegative, WrapsToTwo}

\* --created-after the start of the window.
ListFilter ==
    [CreatedAfter |-> Ptr(WindowStart), CreatedBefore |-> Nil,
     ModifiedAfter |-> Nil, ModifiedBefore |-> Nil]

InWindow == Stamp("z", Instant(StampBase + 1, Noon, 0))

BeforeWindow == Stamp("z", Instant(StampBase, Noon, 0))

Listed(k, created) ==
    [project |-> P1, CouchDbID |-> DecoyID(k), withID |-> TRUE,
     created |-> created, modified |-> created]

ListedStores ==
    UNION {{[k \in 1..n |-> Listed(k, s[k])] : s \in [1..n -> {InWindow, BeforeWindow}]} :
           n \in 0..MaxListed}

InitList ==
    /\ listing = <<>>
    /\ run = [pc |-> "idle"]
    /\ twin = [pc |-> "idle"]
    /\ store \in ListedStores
    /\ \E l \in Limits : cmd = NewList(P1, l, ListFilter)
    /\ IdleCodec
    /\ IdleDates
    /\ IdleUpload

NextList == ListBegin \/ ListPage

SpecList == InitList /\ [][NextList]_vars

\* ---- C16 ------------------------------------------------------------------
\* min(3 * limit, 200), on the integers.
StatedFetchSize(Limit) ==
    LET triple == GoInt(Limit.neg, TrimZeros(MulSmall(Limit.mag, 3, 0)))
    IN  IF LessInt(FromNat(MaxFetchSize), triple) THEN FromNat(MaxFetchSize) ELSE triple

\* After this call the loop is to stop: the matches reach the limit or the
\* page is short.
StopsAt(call) ==
    \/ ~LessInt(FromNat(call.matched), cmd.Limit)
    \/ LessInt(FromNat(call.returned), StatedFetchSize(cmd.Limit))

PagingAsStated ==
    /\ \A i \in 1..Len(cmd.calls) :
          /\ cmd.calls[i].page = i - 1
          /\ FromNat(cmd.calls[i].size) = StatedFetchSize(cmd.Limit)
          /\ i < Len(cmd.calls) => ~StopsAt(cmd.calls[i])
    /\ cmd.pc = "done" =>
          /\ Len(cmd.calls) >= 1
          /\ cmd.ret = "nil" => StopsAt(cmd.calls[Len(cmd.calls)])
          /\ cmd.ret \in {"nil", "list"}
    /\ cmd.pc = "fetch" =>
          (Len(cmd.calls) >= 1 => ~StopsAt(cmd.calls[Len(cmd.calls)]))

\* C16: the date-filtered paging loop terminates: it fetches pages 0, 1,
\* 2, ... of size min(3 * limit, 200) and stops after the first page where
\* the accumulated matches reach the limit or the page holds fewer records
\* than the fetch size.
C16_PagingAsStated == cmd.pc \notin {"idle", "begin"} => PagingAsStated

\* The claim on the limits from 1 whose triple fits an int.
PlainLimit ==
    /\ ~cmd.Limit.neg
    /\ cmd.Limit.mag # <<0>>
    /\ Len(cmd.Limit.mag) <= 6

C16_PagingPlainLimit ==
    (cmd.pc \notin {"idle", "begin"} /\ PlainLimit) => PagingAsStated

\* Termination for those limits: every page before the current one was
\* full, so the pages asked for are bounded by the tickets of the project.
C16_PagesBoundedPlainLimit ==
    (cmd.pc = "fetch" /\ PlainLimit) =>
        /\ cmd.page * ToInt(cmd.fetchSize) <= Len(store)
        /\ cmd.page <= MaxPages

\* Limit 1: page 0 held three records with no match, page 1 was fetched and
\* ended the loop.
C16_WitnessSecondPage ==
    /\ cmd.pc = "done"
    /\ cmd.Limit = FromNat(1)
    /\ Len(cmd.calls) = 2
    /\ cmd.calls[1].returned = 3
    /\ cmd.calls[1].matched = 0
    /\ cmd.ret = "nil"

\* The wrapped fetch size: every page is empty from page 1 on and the loop
\* asks for the next.
C16_WitnessNoEnd ==
    /\ cmd.pc = "fetch"
    /\ cmd.Limit = WrapsNegative
    /\ cmd.fetchSize.neg
    /\ Len(cmd.calls) = MaxPages + 1
    /\ cmd.calls[MaxPages + 1].returned = 0

(***************************************************************************)
(* The claims on the scan of the search result and on the fallback probe.  *)
(***************************************************************************)
\* What the service answers the search of this run with, in its order.
Backend == SearchTicketsByID(store, run.projectIDs, ToLower(ToUpper(run.arg)))

\* The records of the answer that encode to the human ID asked for.
MatchingAt == {k \in 1..Len(Backend) : humanID(Backend[k].CouchDbID) = ToUpper(run.arg)}

FirstMatching == CHOOSE k \in MatchingAt : \A j \in MatchingAt : k <= j

HasCompoundID(record) == Contains(record.ID, "|")

Resolved == run.pc = "done" /\ run.ret.err = "nil"

\* C17: when several records returned by the batched search encode to the
\* requested human ID, Resolve returns the first of them in the backend's
\* returned order: a later matching record is never returned in place of an
\* earlier matching one.
C17_FirstMatchReturned ==
    Resolved =>
        /\ MatchingAt # {}
        /\ run.ret.id = Backend[FirstMatching].CouchDbID

\* What holds of the scan: the record returned is a matching one, and a
\* matching record before it was passed over only for carrying no compound
\* ID while a probe failed in transit.
C17_FirstLocatedMatchReturned ==
    Resolved =>
        /\ MatchingAt # {}
        /\ \E k \in MatchingAt :
              /\ run.ret.id = Backend[k].CouchDbID
              /\ \A j \in MatchingAt :
                    j < k => /\ ~HasCompoundID(Backend[j])
                             /\ "get" \in Range(run.faults)

\* Two different matching records in the answer, the first returned.
C17_Witness ==
    /\ Resolved
    /\ Cardinality({Backend[k].CouchDbID : k \in MatchingAt}) = 2
    /\ run.ret.id = Backend[FirstMatching].CouchDbID

\* The first matching record passed over: the second is returned.
C17_WitnessLater ==
    /\ Resolved
    /\ Cardinality(MatchingAt) = 2
    /\ run.ret.id # Backend[FirstMatching].CouchDbID

\* ---- documents whose identifier holds a "|" -------------------------------
\* T4 encodes to the human ID of T1; its "id" field has two "|".
T4 == <<"7", "|", "a", "1", "b", "2", "c", "3">>

BarTickets == [project : {P1, P2}, CouchDbID : {T1, T4}, withID : BOOLEAN]

BarStores ==
    {t \in UNION {[1..n -> BarTickets] : n \in 1..MaxTickets} : UniqueInProject(t)}

InitResolveBars ==
    /\ listing \in Listings
    /\ store \in BarStores
    /\ \E d \in Scopes :
         /\ run = NewRun(humanID(T1), d)
         /\ twin = [pc |-> "idle"]
    /\ IdleCodec
    /\ IdleDates
    /\ IdleUpload
    /\ IdleCmd

SpecResolveBars == InitResolveBars /\ [][NextResolve]_vars

\* The part of s before its first "|".
FirstPart(s) ==
    CHOOSE p \in {SubSeq(s, 1, n) : n \in 0..(Len(s) - 1)} :
        ~Contains(p, "|") /\ s[Len(p) + 1] = "|"

\* The scan stands at a record that encodes to the human ID asked for and
\* carries a compound ID.
AtCompoundMatch ==
    /\ run.pc = "scan"
    /\ run.ti <= Len(run.tickets)
    /\ humanID(run.tickets[run.ti].CouchDbID) = ToUpper(run.arg)
    /\ HasCompoundID(run.tickets[run.ti])

\* C18: when the matching record carries a compoundId containing "|",
\* Resolve returns as project the part of compoundId before the first "|"
\* (later "|" stay in the remainder), returns the record's remoteId, and
\* issues no get-by-id probe.
C18_CompoundSplit ==
    [][AtCompoundMatch =>
          /\ run'.pc = "done"
          /\ run'.ret = [project |-> FirstPart(run.tickets[run.ti].ID),
                         id |-> run.tickets[run.ti].CouchDbID,
                         err |-> "nil"]
          /\ run'.calls = run.calls]_vars

\* Resolved from a compound ID with two "|", with no GetTicket issued.
C18_Witness ==
    /\ Resolved
    /\ run.tickets[run.ti].ID = P2 \o <<"|">> \o T4
    /\ run.ret.project = P2
    /\ run.ret.id = T4
    /\ \A i \in 1..Len(run.calls) : run.calls[i].op # "GetTicket"

\* The probe the fallback is about to issue.
NextProbe ==
    [op |-> "GetTicket", project |-> run.projectIDs[run.pj],
     id |-> run.tickets[run.ti].CouchDbID]

\* C19: when the matching record has no compoundId, the fallback probe
\* tries get-by-id on the candidate projects one at a time in candidate
\* order and returns the first project whose get succeeds; a failed get
\* (including a transient error) only excludes that project and does not
\* abort the resolution, and no project after the first success is probed.
C19_FallbackProbe ==
    [][/\ (run.pc = "scan" /\ run'.pc = "probe") =>
             /\ ~HasCompoundID(run.tickets[run.ti])
             /\ humanID(run.tickets[run.ti].CouchDbID) = ToUpper(run.arg)
             /\ run'.pj = 1
             /\ run'.calls = run.calls
       /\ run.pc = "probe" =>
             /\ run'.calls = Append(run.calls, NextProbe)
             /\ IF TicketExists(store, NextProbe.project, NextProbe.id)
                      /\ run'.faults = run.faults
                    THEN \* the get succeeded
                         /\ run'.pc = "done"
                         /\ run'.ret = [project |-> NextProbe.project,
                                        id |-> NextProbe.id, err |-> "nil"]
                    ELSE \* the get failed: on to the next candidate, or to
                         \* the next record after the last candidate
                         /\ run'.ret = run.ret
                         /\ IF run.pj < Len(run.projectIDs)
                                THEN run'.pc = "probe" /\ run'.pj = run.pj + 1
                                                      /\ run'.ti = run.ti
                                ELSE run'.pc = "scan" /\ run'.ti = run.ti + 1
       /\ run.pc = "done" => run'.calls = run.calls]_vars

\* The first candidate holds the ticket and its get failed in transit: the
\* second candidate is probed and returned.
C19_Witness ==
    /\ Resolved
    /\ Len(run.projectIDs) = 2
    /\ run.pj = 2
    /\ run.faults = <<"get">>
    /\ TicketExists(store, run.projectIDs[1], run.ret.id)
    /\ run.ret.project = run.projectIDs[2]
    /\ Len(run.calls) = 5

\* The calls of the run to one operation.
CallsTo(op) == {i \in 1..Len(run.calls) : run.calls[i].op = op}

ProbesOf(projectID) ==
    {i \in CallsTo("GetTicket") : run.calls[i].project = projectID}

\* The run has its candidate projects: it is past the project list.
PastListing ==
    /\ run.pc \notin {"idle", "start", "list", "search"}
    /\ run.ret.err \notin {"email", "list"}

\* C20: one Resolve call issues exactly one batched search call whatever
\* the size of the candidate set, and at most one get-by-id probe per
\* candidate project: the total number of get-by-id calls in one Resolve
\* never exceeds the number of candidate projects.
C20_CallCounts ==
    /\ run.pc # "idle" => Cardinality(CallsTo("Search")) <= 1
    /\ PastListing =>
          /\ Cardinality(CallsTo("Search")) = 1
          /\ \A i \in 1..Len(run.projectIDs) :
                Cardinality(ProbesOf(run.projectIDs[i])) <= 1
          /\ Cardinality(CallsTo("GetTicket")) <= Len(run.projectIDs)

\* What holds of the counts: one search; the probes are bounded by the
\* candidates for each matching record without a compound ID, and by the
\* candidates alone as long as no probe failed in transit.
C20_CallCountsPerRecord ==
    /\ run.pc # "idle" => Cardinality(CallsTo("Search")) <= 1
    /\ PastListing =>
          /\ Cardinality(CallsTo("Search")) = 1
          /\ Cardinality(CallsTo("GetTicket"))
                <= Len(run.projectIDs)
                   * Cardinality({k \in MatchingAt : ~HasCompoundID(Backend[k])})
          /\ "get" \notin Range(run.faults) =>
                /\ Cardinality(CallsTo("GetTicket")) <= Len(run.projectIDs)
                /\ \A i \in 1..Len(run.projectIDs) :
                      Cardinality(ProbesOf(run.projectIDs[i])) <= 1

\* Two candidates, four probes: both records were probed in both projects.
C20_WitnessFourProbes ==
    /\ run.pc = "done"
    /\ Len(run.projectIDs) = 2
    /\ Cardinality(CallsTo("Search")) = 1
    /\ Cardinality(CallsTo("GetTicket")) = 4

\* ---- C21 ------------------------------------------------------------------
\* The run ended with the error of the call that failed.
AbortedWith(kind) == run.pc = "done" /\ run.ret.err = kind

\* No call is issued twice in a row.
NoImmediateRetry ==
    \A i \in 1..(Len(run.calls) - 1) : run.calls[i] # run.calls[i + 1]

C21_WitnessProbeSwallowed ==
    /\ Resolved
    /\ run.faults = <<"get">>

(***************************************************************************)
(* What a failed run leaves on the service.                                *)
(***************************************************************************)
\* The operations of the client that the pipeline calls.
PipelineOps ==
    Range(StageOps) \cup {"GetCurrentUser", "ListProjects", "GetFileGroup"}

\* A record of the display name that this run created is held by the
\* service.
RecordLeft ==
    \E i \in 1..Len(cloud.files) :
        /\ cloud.files[i].by = "run"
        /\ cloud.files[i].name = upload.displayName

\* C22: the pipeline never issues a delete or cleanup call: when stage 4, 5
\* or 6 fails after stages 1 to 3 succeeded, the uploaded blob (and, after
\* stage 4 succeeded, the created record) still exists on the service when
\* the pipeline returns its error.
C22_NothingCleanedUp ==
    upload.pc # "idle" =>
        /\ \A i \in 1..Len(upload.calls) : upload.calls[i].op \in PipelineOps
        /\ Answered("CompleteUpload") => BlobLeft
        /\ Answered("CreateFile") => RecordLeft
        /\ \A k \in 4..6 :
             StageFailed(k) =>
                 /\ upload.pc = "done"
                 /\ IsError(upload.ret)
                 /\ BlobLeft
                 /\ k > 4 => RecordLeft

\* Stage 6 failed after the record was created: blob and record are left.
C22_Witness ==
    /\ upload.pc = "done"
    /\ StageFailed(6)
    /\ BlobLeft
    /\ RecordLeft

\* Stage 4 failed: the blob is left and no record of the run exists.
C22_WitnessNoRecord ==
    /\ upload.pc = "done"
    /\ StageFailed(4)
    /\ BlobLeft
    /\ ~RecordLeft

(***************************************************************************)
(* How often each operation is attempted.                                  *)
(***************************************************************************)
\* The positions of the calls of an operation of the pipeline.
AttemptsOf(op) == {i \in 1..Len(upload.calls) : upload.calls[i].op = op}

\* C23: the remote operation of each stage (initiate, transfer of chunk 0,
\* complete, create record, list recent, get record, submit conversion) is
\* attempted at most once; a run that succeeds has issued each of them
\* exactly once and ends in the result "queued", never "converted".
C23_EachStageOnce ==
    upload.pc # "idle" =>
        /\ \A k \in 1..Len(StageOps) : Cardinality(AttemptsOf(StageOps[k])) <= 1
        /\ \A i \in AttemptsOf("UploadChunk") : upload.calls[i].args[3] = <<"0">>
        /\ \A i \in 1..Len(upload.out) : upload.out[i] # "converted"
        /\ (upload.pc = "done" /\ upload.ret = "nil") =>
             /\ \A k \in 1..Len(StageOps) :
                  /\ Cardinality(AttemptsOf(StageOps[k])) = 1
                  /\ \A i \in AttemptsOf(StageOps[k]) : upload.calls[i].resp = "ok"
             /\ \E i \in 1..Len(upload.out) : upload.out[i] = "queued"
             /\ Len(cloud.jobs) = 1
        /\ (\E i \in 1..Len(upload.out) : upload.out[i] = "queued") =>
             upload.pc = "done" /\ upload.ret = "nil"

\* A run that succeeded: each operation once, the result "queued".
C23_Witness ==
    /\ upload.pc = "done"
    /\ upload.ret = "nil"
    /\ \A k \in 1..Len(StageOps) : Cardinality(AttemptsOf(StageOps[k])) = 1
    /\ upload.out[Len(upload.out) - 1] = "queued"

(***************************************************************************)
(* Which failures are swallowed: a resolution of a human ID and an upload  *)
(* of a map, two commands that run independently of each other.            *)
(***************************************************************************)
InitCalls ==
    /\ listing \in {l \in Listings : \A i \in 1..Len(l) : l[i].IsActive}
    /\ store \in {<<t>> : t \in {u \in RemoteTickets : u.CouchDbID = T1}}
    /\ \E d \in Scopes :
         /\ run = NewRun(humanID(T1), d)
         /\ twin = [pc |-> "idle"]
    /\ \E name \in MapNames :
         /\ upload = NewUpload(PlanFile, name, 42)
         /\ cloud = [sessions |-> <<>>, files |-> <<>>, jobs |-> <<>>,
                     wire |-> [name |-> "fileName", id |-> "couchDbId"],
                     others |-> 0]
    /\ IdleCodec
    /\ IdleDates
    /\ IdleCmd

NextCalls == NextResolve \/ NextUpload

SpecCalls == InitCalls /\ [][NextCalls]_vars

\* The call at position i of the pipeline failed.
CallFailed(i) == upload.calls[i].resp # "ok"

\* The pipeline went on after its call at position i.
WentOn(i) == i < Len(upload.calls) \/ upload.pc # "done"

\* The failure of the pipeline's call at position i was returned.
Surfaced(i) ==
    /\ i = Len(upload.calls)
    /\ upload.pc = "done"
    /\ IsError(upload.ret)

\* A failed group lookup is passed over, the empty name is submitted; the
\* failure of every other call of the pipeline is returned.
PipelineSwallowsGroupOnly ==
    upload.pc # "idle" =>
        /\ \A i \in 1..Len(upload.calls) :
             CallFailed(i) =>
                 IF upload.calls[i].op = "GetFileGroup"
                 THEN /\ WentOn(i)
                      /\ upload.groupName = <<>>
                      /\ \A j \in AttemptsOf("ConvertFileToMap") :
                           upload.calls[j].args[5] = <<>>
                 ELSE Surfaced(i)
        /\ \A j \in 1..Len(cloud.jobs) :
             (\E i \in AttemptsOf("GetFileGroup") : CallFailed(i)) =>
                 cloud.jobs[j].subject = <<>>

\* C24 as stated: the group-name lookup of stage 6 is the only call whose
\* failure is swallowed: if it fails, the pipeline continues and submits the
\* job with an empty group name, while a failure of any other call in the
\* resolver or the pipeline is surfaced.
C24_OnlyGroupLookupSwallowed ==
    /\ PipelineSwallowsGroupOnly
    /\ run.pc # "idle" =>
         \A i \in 1..Len(run.faults) : AbortedWith(run.faults[i])

\* C24 with the probes of the resolver set apart: the group-name lookup of
\* stage 6 and the get-by-id probes of the resolver are the only calls whose
\* failure is swallowed; a failure of any other call in the resolver or the
\* pipeline is surfaced.
C24_GroupLookupAndProbesSwallowed ==
    /\ PipelineSwallowsGroupOnly
    /\ run.pc # "idle" =>
         /\ \A i \in 1..Len(run.faults) :
              run.faults[i] # "get" =>
                  AbortedWith(run.faults[i]) /\ i = Len(run.faults)
         /\ run.pc = "done" => run.ret.err # "get"

\* The group lookup failed and the job was submitted with the empty name.
C24_Witness ==
    /\ upload.pc = "done"
    /\ upload.ret = "nil"
    /\ \E i \in AttemptsOf("GetFileGroup") : CallFailed(i)
    /\ Len(cloud.jobs) = 1
    /\ cloud.jobs[1].subject = <<>>

\* A probe of the resolver failed and its error was not returned.
C24_WitnessProbe ==
    /\ run.pc = "done"
    /\ run.faults = <<"get">>
    /\ run.ret.err # "get"

(***************************************************************************)
(* cmd/tickets.go: TicketsListCmd.Run without a project: the date-filtered *)
(* listing across the projects of the account.                             *)
(***************************************************************************)
NewListAll(Limit, filters, AllProjects) ==
    [pc |-> "projects",
     Database |-> EmptyString,
     Limit |-> Limit,
     filters |-> filters,
     AllProjects |-> AllProjects,
     projects |-> <<>>,
     pj |-> 1,
     allTickets |-> <<>>,
     ret |-> "none",
     calls |-> <<>>]                    \* the ListTickets calls: project and
                                        \* size asked for, whether it failed

\* The loop over the projects takes the next project, or ends.
NextProject(c) ==
    IF c.pj < Len(c.projects)
        THEN [c EXCEPT !.pj = @ + 1]
        ELSE [c EXCEPT !.ret = "nil", !.pc = "done"]

\* tickets.go:172-175: client.ListProjects
StepListAllBegin(c, projects, outcome) ==
    IF outcome = "error"
        THEN [c EXCEPT !.ret = "projects", !.pc = "done"]
    ELSE IF projects = <<>>
        THEN [c EXCEPT !.ret = "nil", !.pc = "done"]
    ELSE [c EXCEPT !.projects = projects, !.pj = 1, !.pc = "project"]

\* tickets.go:209-221: the tickets of the page that pass the date filters.
Matching(tickets, filters) ==
    SelectSeq(tickets, LAMBDA t : MatchesDates(filters, t.created, t.modified))

\* tickets.go:177-229: one turn of the loop over the projects.
StepListAllProject(c, remote, outcome) ==
    LET project == c.projects[c.pj]
        answer == ListTickets(remote, project.ProjectID, c.Limit, 0)
        call == [project |-> project.ProjectID, size |-> answer.size,
                 failed |-> outcome = "error"]
        all == c.allTickets \o Matching(answer.tickets, c.filters)
        c1 == [c EXCEPT !.calls = @ \o <<call>>]
    IN  IF project.ProjectID = GlacierProjectID THEN NextProject(c)
        ELSE IF ~project.IsActive /\ ~c.AllProjects THEN NextProject(c)
        ELSE IF outcome = "error" THEN NextProject(c1)
        ELSE IF ~LessInt(FromNat(Len(all)), c.Limit)
            THEN IF c.Limit.neg
                     THEN [c1 EXCEPT !.ret = "panic: slice bounds out of range",
                                     !.pc = "done"]
                     ELSE [c1 EXCEPT !.allTickets = SubSeq(all, 1, ToInt(c.Limit)),
                                     !.ret = "nil", !.pc = "done"]
        ELSE NextProject([c1 EXCEPT !.allTickets = all])

ListAllFrame == <<listing, store, run, twin, codecVars, dateVars, uploadVars>>

ListAllBegin ==
    /\ cmd.pc = "projects"
    /\ \E outcome \in {"ok", "error"} :
         cmd' = StepListAllBegin(cmd, listing, outcome)
    /\ UNCHANGED ListAllFrame

ListAllProject ==
    /\ cmd.pc = "project"
    /\ \E outcome \in {"ok", "error"} :
         cmd' = StepListAllProject(cmd, store, outcome)
    /\ UNCHANGED ListAllFrame

\* ---- the arguments and the tickets of the two projects --------------------
ListedIn(p, k, created) == [Listed(k, created) EXCEPT !.project = p]

ListedAnywhere ==
    UNION {{[k \in 1..n |-> ListedIn(s[k][1], k, s[k][2])] :
                s \in [1..n -> {P1, P2} \X {InWindow, BeforeWindow}]} :
           n \in 0..MaxListed}

\* Limits from 1 whose triple fits an int.
PlainLimits == {FromNat(1), FromNat(2), FromNat(3)}

InitListAny ==
    /\ listing \in Listings
    /\ store \in ListedAnywhere
    /\ run = [pc |-> "idle"]
    /\ twin = [pc |-> "idle"]
    /\ \E l \in PlainLimits :
         \/ cmd = NewList(P1, l, ListFilter)
         \/ \E a \in BOOLEAN : cmd = NewListAll(l, ListFilter, a)
    /\ IdleCodec
    /\ IdleDates
    /\ IdleUpload

NextListAny == ListBegin \/ ListPage \/ ListAllBegin \/ ListAllProject

SpecListAny == InitListAny /\ [][NextListAny]_vars

\* ---- C25 ------------------------------------------------------------------
\* The projects in scope of the listing, in the order of the service: the
\* project named, or the projects listed that are not the glacier project
\* and are active (all of them with --all-projects).
ScopeOf(c) ==
    IF c.Database # EmptyString THEN <<c.Database>>
    ELSE LET InScope(p) == /\ p.ProjectID # GlacierProjectID
                           /\ p.IsActive \/ c.AllProjects
             ps == SelectSeq(listing, InScope)
         IN  [i \in 1..Len(ps) |-> ps[i].ProjectID]

\* The M matching records in scope, in backend order.
MatchingInScope(c) ==
    Flatten([i \in 1..Len(ScopeOf(c)) |->
                Matching(SelectSeq(store, LAMBDA t : t.project = ScopeOf(c)[i]),
                         c.filters)])

\* The first min(limit, M) of them.
FirstMatches(c) ==
    LET all == MatchingInScope(c)
        n == IF LessInt(FromNat(Len(all)), c.Limit) THEN Len(all) ELSE ToInt(c.Limit)
    IN  SubSeq(all, 1, n)

\* The listing ended and none of its calls failed.
ListedAll ==
    /\ cmd.pc = "done"
    /\ cmd.ret = "nil"
    /\ cmd.Database = EmptyString =>
         \A i \in 1..Len(cmd.calls) : ~cmd.calls[i].failed

\* C25: with date filters active, a list command returns exactly the first
\* min(limit, M) records in backend order among the M in-scope records that
\* pass MatchesDates: every returned record passes MatchesDates, at most
\* limit are returned, and fewer than limit only when no further matching
\* record exists in scope; for one project and across all active projects.
C25_FirstMatchesListed == ListedAll => cmd.allTickets = FirstMatches(cmd)

\* The same of the listing of one project.
C25_FirstMatchesOfProject ==
    (ListedAll /\ cmd.Database # EmptyString) => cmd.allTickets = FirstMatches(cmd)

\* What the listing across the projects does return: matching records in
\* backend order, at most limit, each among the first limit of its project.
C25_MatchesAmongFirstOfProject ==
    (ListedAll /\ cmd.Database = EmptyString) =>
        /\ \A i \in 1..Len(cmd.allTickets) :
             /\ MatchesDates(cmd.filters, cmd.allTickets[i].created,
                             cmd.allTickets[i].modified)
             /\ \E k \in 1..Len(ScopeOf(cmd)) :
                  LET page == ListTickets(store, ScopeOf(cmd)[k], cmd.Limit, 0).tickets
                  IN  \E j \in 1..Len(page) : page[j] = cmd.allTickets[i]
        /\ ~LessInt(cmd.Limit, FromNat(Len(cmd.allTickets)))

\* One project, limit 1: the match is the fourth record, found on page 1.
C25_WitnessProject ==
    /\ ListedAll
    /\ cmd.Database = P1
    /\ Len(cmd.calls) = 2
    /\ Len(cmd.allTickets) = 1

\* All projects, limit 1: the second record of the project matches and the
\* listing is empty.
C25_WitnessMissed ==
    /\ ListedAll
    /\ cmd.Database = EmptyString
    /\ cmd.allTickets = <<>>
    /\ MatchingInScope(cmd) # <<>>

(***************************************************************************)
(* cmd/maps.go:538-544, cmd/files.go:419-425: the upload names of two runs *)
(* of an upload command.  Each run reads the clock of its machine once.    *)
(***************************************************************************)
MaxMillis == 11

FileNames == {PlanFile, <<"p", "l", "a", "n">>, <<".", "p", "d", "f">>}

NewNaming(first, second) ==
    [pc |-> "naming",
     file |-> <<first, second>>,
     millis |-> <<0, 0>>,
     uploadName |-> <<EmptyString, EmptyString>>]

\* uploadName := fmt.Sprintf("%s-%d%s", baseName, time.Now().UnixMilli(), ext)
StepName(c, k, now) ==
    [c EXCEPT !.millis[k] = now,
              !.uploadName[k] = UploadName(c.file[k], now)]

NameUpload ==
    /\ cmd.pc = "naming"
    /\ \E k \in 1..2, now \in 0..MaxMillis :
         /\ cmd.uploadName[k] = EmptyString
         /\ cmd' = StepName(cmd, k, now)
    /\ UNCHANGED <<resolverVars, codecVars, dateVars, uploadVars>>

InitNames ==
    /\ \E first \in FileNames, second \in FileNames :
         cmd = NewNaming(first, second)
    /\ IdleCodec
    /\ IdleResolver
    /\ IdleDates
    /\ IdleUpload

NextNames == NameUpload

SpecNames == InitNames /\ [][NextNames]_vars

\* s is t with "-<millis>" inserted before the last extension of t.
TimestampInserted(s, t, millis) ==
    \E i \in 0..Len(t) :
        /\ s = SubSeq(t, 1, i) \o <<"-">> \o Decimal(millis) \o SubSeq(t, i + 1, Len(t))
        /\ i < Len(t) => t[i + 1] = "."
        /\ \A j \in (i + 2)..Len(t) : t[j] # "."
        /\ i = Len(t) => \A j \in 1..Len(t) : t[j] # "."

BothNamed == cmd.pc = "naming" /\ \A k \in 1..2 : cmd.uploadName[k] # EmptyString

\* C26: the generated upload name is the local filename with
\* "-<millisecond timestamp>" inserted before the last extension, and two
\* runs uploading same-named files (concurrent runs included) always use
\* different upload names.
C26_UploadNamesDiffer ==
    cmd.pc = "naming" =>
        /\ \A k \in 1..2 :
             cmd.uploadName[k] # EmptyString =>
                 TimestampInserted(cmd.uploadName[k], cmd.file[k], cmd.millis[k])
        /\ (BothNamed /\ cmd.file[1] = cmd.file[2]) =>
             cmd.uploadName[1] # cmd.uploadName[2]

\* What holds of the names: the form, and that runs on same-named files
\* that read different milliseconds use different names.
C26_UploadNamesDifferAcrossMillis ==
    cmd.pc = "naming" =>
        /\ \A k \in 1..2 :
             cmd.uploadName[k] # EmptyString =>
                 TimestampInserted(cmd.uploadName[k], cmd.file[k], cmd.millis[k])
        /\ (BothNamed /\ cmd.file[1] = cmd.file[2] /\ cmd.millis[1] # cmd.millis[2]) =>
             cmd.uploadName[1] # cmd.uploadName[2]

\* Two runs on plan.v2.pdf that read the same millisecond.
C26_WitnessSameMillis ==
    /\ BothNamed
    /\ cmd.file = <<PlanFile, PlanFile>>
    /\ cmd.millis = <<10, 10>>
    /\ cmd.uploadName[1] = cmd.uploadName[2]

(***************************************************************************)
(* Which record Discover selects.                                          *)
(***************************************************************************)
\* Discover selected an identifier.
Selected == upload.pc \in {"enrich", "group", "convert", "done"} /\ upload.fileID # <<>>

\* The record that this run created.
OwnRecord(f) == f.by = "run"

\* C27: the identifier selected by Discover is that of the record created
\* by Materialize in the same run: neither an older record with the same
\* display name, nor a record created by a concurrent run with the same
\* display name, nor a stale listing returned before the new record is
\* indexed, makes the pipeline enrich and convert a different record.
C27_OwnRecordSelected ==
    /\ Selected =>
         HasFile(cloud, upload.fileID) /\ OwnRecord(FileOf(cloud, upload.fileID))
    /\ \A j \in 1..Len(cloud.jobs) :
         HasFile(cloud, cloud.jobs[j].fileID)
             /\ OwnRecord(FileOf(cloud, cloud.jobs[j].fileID))

\* The listing that Discover received holds the record of this run.
OwnRecordListed ==
    \E i \in 1..Len(upload.files) :
        /\ HasFile(cloud, WireID(upload.files[i]))
        /\ OwnRecord(FileOf(cloud, WireID(upload.files[i])))

\* What holds: the record selected has the display name of the run, and it
\* is the run's own unless the listing was stale or another client created
\* a record of that name.
C27_NamesakeSelected ==
    Selected =>
        /\ HasFile(cloud, upload.fileID)
        /\ FileOf(cloud, upload.fileID).name = upload.displayName
        /\ \/ OwnRecord(FileOf(cloud, upload.fileID))
           \/ ~OwnRecordListed
           \/ \E i \in 1..Len(cloud.files) :
                /\ cloud.files[i].name = upload.displayName
                /\ cloud.files[i].by = "other"

\* A stale listing: the job was submitted for the older record.
C27_WitnessOlder ==
    /\ upload.pc = "done"
    /\ upload.ret = "nil"
    /\ Len(cloud.jobs) = 1
    /\ FileOf(cloud, cloud.jobs[1].fileID).by = "old"

\* A concurrent run: the job was submitted for the other client's record.
C27_WitnessConcurrent ==
    /\ upload.pc = "done"
    /\ upload.ret = "nil"
    /\ Len(cloud.jobs) = 1
    /\ FileOf(cloud, cloud.jobs[1].fileID).by = "other"

(***************************************************************************)
(* What a resolution that succeeds returns.                                *)
(***************************************************************************)
\* The candidate projects of the call: the project given, or the projects
\* listed that are active and not the glacier project.
CandidatesOfCall ==
    IF run.limitToDatabase # EmptyString THEN {run.limitToDatabase}
    ELSE Range(CandidateProjects(listing))

\* C28: whenever Resolve succeeds, the returned remoteId satisfies
\* Encode(remoteId) = uppercase(requested humanId) and the returned project
\* is a member of the candidate project set of that call.
C28_ResolvedEncodesAndIsCandidate ==
    Resolved =>
        /\ humanID(run.ret.id) = ToUpper(run.arg)
        /\ run.ret.project \in CandidatesOfCall

\* A lower-case human ID resolved without a project, by a compound "id".
C28_Witness ==
    /\ Resolved
    /\ run.limitToDatabase = EmptyString
    /\ run.arg = ToLower(humanID(T1))
    /\ run.arg # humanID(T1)
    /\ Cardinality(CallsTo("GetTicket")) = 0

\* The same by a probe of the second candidate project.
C28_WitnessProbed ==
    /\ Resolved
    /\ run.limitToDatabase = EmptyString
    /\ run.ret.project = P2
    /\ Cardinality(CallsTo("GetTicket")) = 2

(***************************************************************************)
(* The identifier and the version that Enrich and Convert are called with. *)
(***************************************************************************)
\* The record matched by Discover carries no identifier in any id field.
MatchedWithoutID ==
    /\ Answered("ListFiles")
    /\ ~NoNameMatch
    /\ upload.fileID = <<>>

\* C29: Enrich and Convert are always called with a non-empty record
\* identifier and version token: if the record matched by Discover carries
\* no identifier in any of its id fields, or the fetched record has no
\* version token, the pipeline returns an error without issuing the
\* get-record call with an empty id and without submitting a conversion job.
C29_NeverEmptyIdentifier ==
    upload.pc # "idle" =>
        /\ \A i \in AttemptsOf("GetFile") : upload.calls[i].args[2] # <<>>
        /\ \A i \in AttemptsOf("ConvertFileToMap") :
             upload.calls[i].args[2] # <<>> /\ upload.calls[i].args[3] # <<>>
        /\ MatchedWithoutID =>
             /\ upload.pc = "done"
             /\ IsError(upload.ret)
             /\ AttemptsOf("GetFile") = {}
             /\ cloud.jobs = <<>>
        /\ (Answered("GetFile") /\ upload.versionID = <<>>) =>
             /\ upload.pc = "done"
             /\ IsError(upload.ret)
             /\ cloud.jobs = <<>>

\* What holds on the version token: a fetched record without one ends the
\* run in an error, and no conversion is asked for without it.
C29_NeverEmptyVersion ==
    upload.pc # "idle" =>
        /\ \A i \in AttemptsOf("ConvertFileToMap") : upload.calls[i].args[3] # <<>>
        /\ (Answered("GetFile") /\ upload.versionID = <<>>) =>
             /\ upload.pc = "done"
             /\ upload.ret = "file has no versionId"
             /\ cloud.jobs = <<>>

\* The matched record has no identifier and GetFile was called with "".
C29_WitnessEmptyID ==
    /\ MatchedWithoutID
    /\ \E i \in AttemptsOf("GetFile") : upload.calls[i].args[2] = <<>>

\* The fetched record has no version: the run ended in the error.
C29_WitnessNoVersion ==
    /\ Answered("GetFile")
    /\ upload.versionID = <<>>
    /\ upload.ret = "file has no versionId"

(***************************************************************************)
(* cmd/files.go: FilesAddCmd.Run, the upload of a file that is not turned  *)
(* into a map: the steps 1 to 3 of the pipeline, then CreateFile.          *)
(***************************************************************************)
NewFilesAdd(file, name, millis, JSON) ==
    [JSON |-> JSON] @@ NewUpload(file, name, millis)

\* files.go:400-430: os.ReadFile, os.Stat, the names.
StepFilesPrepare(r, outcome) ==
    CASE outcome = "unreadable" -> Return(r, "reading file")
      [] outcome = "noInfo"     -> Return(r, "getting file info")
      [] OTHER ->
           [r EXCEPT !.displayName = DisplayName(r.file, r.name),
                     !.uploadName = UploadName(r.file, r.millis),
                     !.out = Append(@, "Uploading"),
                     !.pc = "initiate"]

\* What the command prints when CreateFile has answered.
FilesAddReport(r) ==
    IF r.JSON THEN <<"printJSON">> ELSE <<"File uploaded successfully", "Name">>

\* files.go:449-471: client.CreateFile and the report; the code of the
\* acknowledgement is not read.
StepFilesMaterialize(r, c, lookup, outcome) ==
    LET looked == GetProject(r, 4, lookup)
        args == <<r.database, r.displayName, r.uploadName, r.signedURL,
                  r.fileGroupID>>
        id == FreshFileID(c)
        record == [id |-> id, name |-> r.displayName,
                   version |-> IF outcome = "unversioned" THEN <<>>
                               ELSE <<"v">> \o id,
                   by |-> "run", indexed |-> FALSE]
    IN  CASE lookup # "ok" -> Step(Return(looked, "creating file"), c)
          [] lookup = "ok" /\ outcome = "error" ->
               Step(Return(Log(looked, Call("CreateFile", 4, "error", args)),
                           "creating file"), c)
          [] lookup = "ok" /\ outcome = "rejected" ->
               Step([Return(Log(looked, Call("CreateFile", 4, "rejected", args)),
                            "nil")
                       EXCEPT !.out = @ \o FilesAddReport(r)], c)
          [] OTHER ->
               Step([Return(Log(looked, Call("CreateFile", 4, "ok", args)), "nil")
                       EXCEPT !.out = @ \o FilesAddReport(r)],
                    [c EXCEPT !.files = <<record>> \o @])

FilesPrepare ==
    /\ upload.pc = "prepare"
    /\ \E outcome \in {"ok", "unreadable", "noInfo"} :
         upload' = StepFilesPrepare(upload, outcome)
    /\ UNCHANGED <<cloud, Others>>

FilesMaterialize ==
    /\ upload.pc = "materialize"
    /\ \E lookup \in Lookups, outcome \in {"ok", "unversioned", "rejected", "error"} :
         LET s == StepFilesMaterialize(upload, cloud, lookup, outcome)
         IN  upload' = s.run /\ cloud' = s.cloud
    /\ UNCHANGED Others

InitFilesAdd ==
    /\ \E name \in MapNames, ms \in Millis, w \in Wires, old \in BOOLEAN,
          JSON \in BOOLEAN :
         /\ upload = NewFilesAdd(PlanFile, name, ms, JSON)
         /\ cloud = [sessions |-> <<>>,
                     files |-> IF old THEN <<OldFile(DisplayName(PlanFile, name))>>
                               ELSE <<>>,
                     jobs |-> <<>>, wire |-> w, others |-> 0]
    /\ IdleCodec
    /\ IdleResolver
    /\ IdleDates
    /\ IdleCmd

NextFilesAdd ==
    \/ FilesPrepare
    \/ Initiate
    \/ Transfer
    \/ Complete
    \/ FilesMaterialize
    \/ OthersCreate

SpecFilesAdd == InitFilesAdd /\ [][NextFilesAdd]_vars

\* ---- C30 ------------------------------------------------------------------
\* The acknowledgement of CreateFile arrived with a code that is not 200.
Rejected ==
    \E i \in AttemptsOf("CreateFile") : upload.calls[i].resp = "rejected"

SuccessMessages == {"File uploaded", "File uploaded successfully", "queued"}

\* C30: an upload command reports success only if the create-record request
\* was acknowledged with the success status: both maps add and files add
\* return an error, and print no success message, when the acknowledgement
\* of the create-record request carries a non-success code.
C30_RejectedIsAnError ==
    (upload.pc = "done" /\ Rejected) =>
        /\ IsError(upload.ret)
        /\ \A i \in 1..Len(upload.out) : upload.out[i] \notin SuccessMessages

\* files add: the acknowledgement carried another code, the command printed
\* its success message and returned nil.
C30_WitnessFilesAdd ==
    /\ upload.pc = "done"
    /\ Rejected
    /\ upload.ret = "nil"
    /\ ~upload.JSON
    /\ upload.out = <<"Uploading", "File uploaded successfully", "Name">>

\* maps add: the acknowledgement carried another code, the command returned
\* the error of step 4.
C30_WitnessMapsAdd ==
    /\ upload.pc = "done"
    /\ Rejected
    /\ upload.ret = "file creation failed"
    /\ upload.out = <<"Uploading">>

====
